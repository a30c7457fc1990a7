------------------------- MODULE MCSensorEventQueue -------------------------
EXTENDS SensorEventQueue
=============================================================================
