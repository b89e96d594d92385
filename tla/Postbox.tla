------------------------------- MODULE Postbox ------------------------------
(***************************************************************************)
(* What the relay and the daemons behind one mailbox promise together,     *)
(* without sockets, acknowledgements, crashes or takeovers: an item gets a *)
(* name once; mail whose sender was told ok is held until some consumer    *)
(* has it for good; and a consumer never loses what it has, gets nothing   *)
(* twice, and gets mail in the order of the names, save one that another   *)
(* consumer has had before.                                                *)
(***************************************************************************)
EXTENDS Naturals, Sequences

CONSTANTS
    Consumers,
    LastItem,  \* names are 1 .. LastItem, in the order they sort
    Mail       \* the names that are not presence notices

VARIABLES
    taken,     \* names given out
    held,      \* what the relay has
    promised,  \* mail whose sender was told ok
    kept       \* kept[c]: what consumer c has for good, in order

vars == <<taken, held, promised, kept>>

Items == 1 .. LastItem

Has(c, i) == \E k \in 1 .. Len(kept[c]) : kept[c][k] = i

\* A mailbox may be as old as one likes.
Init ==
    /\ taken \subseteq Items /\ held = {} /\ promised = {}
    /\ kept = [c \in Consumers |-> <<>>]

Take(i) ==
    /\ i \in Items \ taken
    /\ i \in Mail => \A j \in Mail : j < i => j \in taken
    /\ taken' = taken \cup {i} /\ held' = held \cup {i}
    /\ UNCHANGED <<promised, kept>>

Promise(i) ==
    /\ i \in held \cap Mail
    /\ promised' = promised \cup {i}
    /\ UNCHANGED <<taken, held, kept>>

Drop(gone) ==
    /\ \A i \in gone \cap promised : \E c \in Consumers : Has(c, i)
    /\ held' = held \ gone
    /\ UNCHANGED <<taken, promised, kept>>

\* What comes, or comes back, after something later must be with another consumer.
InPlace(c, s) ==
    \A j, k \in 1 .. Len(s) :
       /\ s[j] = s[k] => j = k
       /\ j < k /\ s[j] \in Mail /\ s[k] \in Mail /\ s[j] > s[k]
             => \E d \in Consumers \ {c} : Has(d, s[k])

Keep(c, more) ==
    /\ kept' = [kept EXCEPT ![c] = @ \o more]
    /\ \A k \in 1 .. Len(more) : more[k] \in taken
    /\ InPlace(c, kept'[c])
    /\ UNCHANGED <<taken, held, promised>>

\* Nobody keeps more than there are items.
Lists == UNION {[1 .. n -> Items] : n \in 0 .. LastItem}

Next ==
    \/ \E i \in Items : Take(i) \/ Promise(i)
    \/ \E gone \in SUBSET held : Drop(gone)
    \/ \E c \in Consumers, more \in Lists : Keep(c, more)

Spec == Init /\ [][Next]_vars
=============================================================================
