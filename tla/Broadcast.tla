------------------------------ MODULE Broadcast ------------------------------
(***************************************************************************)
(* What hawkd's broadcast socket promises its subscribers (spec 4.3 and    *)
(* 5): records are published in one order; a subscriber that joins        *)
(* receives, in that order and without a gap, the records published after *)
(* it joined, until it leaves.  Nothing is said of when delivery happens. *)
(***************************************************************************)
EXTENDS Naturals, Sequences

CONSTANTS
    Subscribers,    \* clients of the broadcast socket
    Values          \* what a record may be

VARIABLES
    hist,       \* every record published, in order
    member,     \* member[s]: "out" before joining, "in", "gone" after leaving
    start,      \* start[s]: Len(hist) when s joined
    got         \* got[s]: the records s has received

avars == <<hist, member, start, got>>

Init ==
    /\ hist = <<>>
    /\ member = [s \in Subscribers |-> "out"]
    /\ start = [s \in Subscribers |-> 0]
    /\ got = [s \in Subscribers |-> <<>>]

Publish(v) ==
    /\ hist' = Append(hist, v)
    /\ UNCHANGED <<member, start, got>>

Join(s) ==
    /\ member[s] = "out"
    /\ member' = [member EXCEPT ![s] = "in"]
    /\ start' = [start EXCEPT ![s] = Len(hist)]
    /\ UNCHANGED <<hist, got>>

\* The next record s has not received, and no other.
Deliver(s) ==
    /\ member[s] = "in"
    /\ start[s] + Len(got[s]) < Len(hist)
    /\ got' = [got EXCEPT ![s] = Append(@, hist[start[s] + Len(got[s]) + 1])]
    /\ UNCHANGED <<hist, member, start>>

Leave(s) ==
    /\ member[s] = "in"
    /\ member' = [member EXCEPT ![s] = "gone"]
    /\ UNCHANGED <<hist, start, got>>

Next ==
    \/ \E v \in Values : Publish(v)
    \/ \E s \in Subscribers : Join(s) \/ Deliver(s) \/ Leave(s)

Spec == Init /\ [][Next]_avars

=============================================================================
