\* Three threads load and drop in any order; system calls fail; something is mapped at
\* the RAM core's address.
SPECIFICATION Spec
CONSTANTS
  Threads = {t1, t2, t3}
  Foreign = Foreign
  Nobody = Nobody
  Occupied <- AtTheRam
  MaxFaults = 2
SYMMETRY ThreadSymmetry
INVARIANTS TypeOK AtMostOneFirmware NothingLeaks LiveIsWholeUnlessBeside
