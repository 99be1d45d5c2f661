--------------------------- MODULE MCWriterLease ---------------------------
(* Instances of WriterLease for TLC. *)
EXTENDS WriterLease

CONSTANTS a1, a2, p1

TwoServers == {a1, a2}
LeaseFile == {p1}

SlowStart == {"slowstart"}
SlowAndCrash == {"crash", "slowstart", "ioerror"}
============================================================================
