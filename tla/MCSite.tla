------------------------------- MODULE MCSite -------------------------------
(***************************************************************************)
(* Small instances of the site: two package directories, one name in two   *)
(* capitals beside the reserved one, two browsers.                         *)
(***************************************************************************)
EXTENDS Site, TLC

CONSTANTS s1, s2, t1, t2, benchmark, ania, Ania, b1, b2, k1, k2

d1 == 1
d2 == 2

MCLower == [n \in {benchmark, ania, Ania} |-> IF n = Ania THEN ania ELSE n]

Good(slug, text, n) == [slug |-> slug, markdown |-> text, tests |-> n, flawed |-> FALSE]
Flawed(slug) == [Good(slug, None, 1) EXCEPT !.flawed = TRUE]

(* Two good packages; the same ones with other tests and statements; the   *)
(* second broken, without tests, under the slug of the first, or the first *)
(* one in a renamed directory.                                             *)
MCShipments ==
  {(d1 :> Good(s1, None, 2)) @@ (d2 :> Good(s2, t1, 1)),
   (d1 :> Good(s1, t1, 1)) @@ (d2 :> Good(s2, t2, 2)),
   (d1 :> Good(s1, t1, 1)) @@ (d2 :> Flawed(s2)),
   (d1 :> Good(s1, None, 1)) @@ (d2 :> Good(s2, None, 0)),
   (d1 :> Good(s1, None, 1)) @@ (d2 :> Good(s1, None, 1)),
   (d1 :> None) @@ (d2 :> Good(s1, t1, 1))}

Plain == [https |-> FALSE, said |-> {}, url |-> "http"]
Proxied == [https |-> TRUE, said |-> {"https"}, url |-> "http"]
(* The same with a protocol the caller made up in front. *)
Doubtful == [https |-> TRUE, said |-> {"http", "https"}, url |-> "http"]

MCConnections == {Plain, Proxied, Doubtful}

Env(secure) == [secret |-> k1, secure |-> secure]

Budgeted(ships, rotations, byHand, kills, logIns, batches) ==
  [ships |-> ships, rotations |-> rotations, byHand |-> byHand, kills |-> kills,
   logIns |-> logIns, batches |-> batches]

(* Seeds against each other, kills and every shipment, with nobody about.  *)
Seeding ==
  [disk : MCShipments, env : {Env("auto")}, via : {[b \in {b1, b2} |-> Plain]},
   left : {Budgeted(1, 0, 1, 1, 0, 0)}]

GoodDisk == (d1 :> Good(s1, None, 2)) @@ (d2 :> Good(s2, t1, 1))

(* A log-in and a batch beside the seeds. *)
Beside ==
  [disk : {GoodDisk}, env : {Env("auto")}, via : {[b \in {b1, b2} |-> Plain]},
   left : {Budgeted(0, 0, 1, 1, 1, 1)}]

(* Two log-ins over every connection, also while the secret changes. *)
People ==
  [disk : {GoodDisk}, env : {Env(secure) : secure \in {"auto", "true", "false"}},
   via : {[b \in {b1, b2} |-> IF b = b1 THEN via ELSE Plain] : via \in MCConnections},
   left : {Budgeted(0, 0, 0, 0, 2, 0)}]

Rotating ==
  [disk : {GoodDisk}, env : {Env("auto")}, via : {[b \in {b1, b2} |-> Proxied]},
   left : {Budgeted(0, 2, 0, 0, 2, 0)}]

MCScenarios == Seeding \union Beside \union People \union Rotating
=============================================================================
