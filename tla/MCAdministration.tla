-------------------------- MODULE MCAdministration ---------------------------
(* The deployment's administrator and two users of the directory, in two   *)
(* browsers.  Behaviours begin at states Spec reaches: the seed has been   *)
(* imported; there are two administrators, or one who was created and then *)
(* made an administrator.                                                  *)
EXTENDS Administration, TLC

CONSTANTS root, a, b, p1, p2, t1, t2

(* A restart may provision the users of the directory as well.             *)
Extended == {{root}, {root, a, b}}

Opening ==
  /\ server = "up" /\ deployed = {root} /\ store = "valid"
  /\ value = [e \in Entity |-> 1] /\ version = Unset
  /\ \E admins \in {{a}, {b}, {a, b}} :
       user = [u \in Subject |-> [there |-> u \in admins, active |-> u \in admins,
                                  admin |-> u \in admins]]
  /\ session = [t \in Token |-> [state |-> "unissued", who |-> Nobody, admin |-> FALSE]]
  /\ page = [p \in Page |-> [cookie |-> Nobody, loaded |-> FALSE,
                             seen |-> Unset, known |-> Unset]]
  /\ req = [p \in Page |-> Waiting]
  /\ writes = 1 /\ changes = 2

OpenSpec == Opening /\ [][Next]_vars

Interchangeable ==
  Permutations({a, b}) \cup Permutations({p1, p2}) \cup Permutations({t1, t2})
=============================================================================
