----------------------------- MODULE Leadership -----------------------------
(***************************************************************************)
(* What the instances of a namespace may rely on when they share Secrets   *)
(* (ResourceSharing): every name has one leader at most, who keeps it      *)
(* until it gives it up itself; an instance leads one at most of the names *)
(* that are alternatives to each other, and nothing once it is gone; and   *)
(* only a name that has a leader gets its Secret, for a path without one.  *)
(* Once an API call has failed an instance may go and still be the leader. *)
(***************************************************************************)
CONSTANTS Instance,        \* instances that share
          Name,            \* names of Secrets
          PathOf,          \* what each Secret is for
          LastPathParent   \* paths with one parent are alternatives

VARIABLES member,          \* instances that exist
          leads,           \* who leads what: pairs of an instance and a name
          secrets,         \* Secrets that exist
          lost             \* an API call has failed, or the operator restarted

vars == << member, leads, secrets, lost >>

Rivals(n) == {m \in Name : LastPathParent[PathOf[m]] = LastPathParent[PathOf[n]]}

OnePerPath(names) == \A m, n \in names : PathOf[m] = PathOf[n] => m = n

Init ==
    /\ member \subseteq Instance
    /\ leads = {}
    /\ secrets \subseteq Name /\ OnePerPath(secrets)
    /\ lost = FALSE

NowLed(pairs) == leads' = pairs /\ UNCHANGED << member, secrets >>

(* Nobody leads the name: the instance does, instead of its alternatives.  *)
Take(i, n) ==
    /\ i \in member
    /\ \A j \in Instance : << j, n >> \notin leads
    /\ NowLed((leads \ ({i} \X Rivals(n))) \union {<< i, n >>})

(* Another instance leads the name, and with it the alternatives are gone. *)
Follow(i, n) ==
    /\ \E j \in Instance \ {i} : << j, n >> \in leads
    /\ NowLed(leads \ ({i} \X Rivals(n)))

Resign(i) == NowLed(leads \ ({i} \X Name))

Create(n) ==
    /\ \E i \in Instance : << i, n >> \in leads
    /\ n \notin secrets /\ OnePerPath(secrets \union {n})
    /\ secrets' = secrets \union {n}
    /\ UNCHANGED << member, leads >>

Remove(n) == secrets' = secrets \ {n} /\ UNCHANGED << member, leads >>

Enter(i) == member' = member \union {i} /\ UNCHANGED << leads, secrets >>

Leave(i) ==
    /\ lost \/ \A n \in Name : << i, n >> \notin leads
    /\ member' = member \ {i}
    /\ UNCHANGED << leads, secrets >>

Next ==
    /\ \/ UNCHANGED << member, leads, secrets >>
       \/ \E i \in Instance : Enter(i) \/ Leave(i) \/ Resign(i)
       \/ \E n \in Name : Create(n) \/ Remove(n)
       \/ \E i \in Instance, n \in Name : Take(i, n) \/ Follow(i, n)
    /\ lost' \in {lost, TRUE}

Spec == Init /\ [][Next]_vars

(* What it comes to, in every state: one leader of a name, one alternative *)
(* led by an instance, one Secret of a path, and until a call has failed   *)
(* no leader that is gone.                                                 *)
Orderly ==
    /\ \A n \in Name : \A i, j \in Instance :
          << i, n >> \in leads /\ << j, n >> \in leads => i = j
    /\ \A i \in Instance : \A n \in Name : \A m \in Rivals(n) :
          << i, n >> \in leads /\ << i, m >> \in leads => m = n
    /\ OnePerPath(secrets)
    /\ lost \/ \A i \in Instance, n \in Name : << i, n >> \in leads => i \in member
=============================================================================
