\* A frame that moves in between TIMER and IFLAG1 is never reported.
SPECIFICATION Spec
CONSTANTS
    Handles = {1, 2}
    MaxFrames = 3
INVARIANTS
    NoForgottenFrame
