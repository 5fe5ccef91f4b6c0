--------------------------- MODULE FencingTokens ---------------------------
(***************************************************************************)
(* What the poller lease promises, without saying how: numbers are issued  *)
(* in increasing order, a client that takes a number is the only client    *)
(* that ever uses it, and a number that was given up, or whose delivery    *)
(* failed, is never used again.  PollerLease implements this module with   *)
(* the epoch column of "poller_lease" as the source of the numbers.        *)
(***************************************************************************)
EXTENDS Naturals

CONSTANT Clients

VARIABLES issued,   \* the highest number issued so far; 0 before the first
          held,     \* [Clients -> number in use, 0 for none]
          retired   \* numbers that no client may use any more

tokenVars == <<issued, held, retired>>

TokenTypeOK ==
    /\ issued \in Nat
    /\ held \in [Clients -> 0..issued]
    /\ retired \subseteq 1..issued

Init ==
    /\ issued = 0
    /\ held = [c \in Clients |-> 0]
    /\ retired = {}

Free(e) == e \notin retired /\ \A c \in Clients : held[c] # e

\* A new number exists; nobody uses it yet.
Issue ==
    /\ issued' = issued + 1
    /\ UNCHANGED <<held, retired>>

\* c starts to use a free number and gives up the one it used before.
Take(c) ==
    \E e \in 1..issued :
        /\ Free(e)
        /\ held' = [held EXCEPT ![c] = e]
        /\ retired' = retired \cup ({held[c]} \ {0})
        /\ UNCHANGED issued

\* Some free numbers will never be used, and c may stop using its own.
GiveUp(c) ==
    \E lost \in SUBSET (1..issued) :
        /\ \A e \in lost : Free(e)
        /\ held' = [held EXCEPT ![c] = 0]
        /\ retired' = retired \cup lost \cup ({held[c]} \ {0})
        /\ UNCHANGED issued

\* Free numbers are lost on their way to a client that keeps what it has.
Lose ==
    \E lost \in SUBSET (1..issued) :
        /\ \A e \in lost : Free(e)
        /\ retired' = retired \cup lost
        /\ UNCHANGED <<issued, held>>

Next == Issue \/ Lose \/ \E c \in Clients : Take(c) \/ GiveUp(c)

Spec == Init /\ [][Next]_tokenVars

=============================================================================
