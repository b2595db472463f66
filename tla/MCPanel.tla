------------------------------- MODULE MCPanel -------------------------------
(***************************************************************************)
(* Small instances of the admin page and the registry behind it.           *)
(***************************************************************************)
EXTENDS AdminPanel, TLC

CONSTANTS m1, m2

(* One inventory lists both machines, one drops the second, one says       *)
(* nothing.                                                                *)
MCSettings == {{m1, m2}, {m1}, Unreadable}
=============================================================================
