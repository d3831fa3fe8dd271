----------------------------- MODULE PortPicker -----------------------------
(***************************************************************************)
(* The choice of a listening port (infrastructure/vpn/port_picker.py).  A  *)
(* random choice is the set of its outcomes; the empty set is              *)
(* PortUnavailableError.                                                   *)
(***************************************************************************)
EXTENDS Integers

NoPort == 0

\* A preferred candidate is taken as it is, neither excluded nor tried.  Else
\* one of the candidates outside exclude that bind() accepts now (open); when
\* exclude covers them all, any candidate that binds.
pick_port(candidates, exclude, open, preferred) ==
  IF preferred \in candidates
    THEN {preferred}
    ELSE LET pool == candidates \ exclude
         IN  (IF pool = {} THEN candidates ELSE pool) \cap open

=============================================================================
