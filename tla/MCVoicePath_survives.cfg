\* Every correctable pattern of errors in a frame's two blocks, and some others.
\* It stops when the three frames of the burst are decoded.
CHECK_DEADLOCK FALSE
SPECIFICATION Spec
CONSTANTS
  Voices <- SomeVoices
  Noises <- SomeNoises
INVARIANTS VoiceSurvives ErrorsAreCounted FramesComeBack
