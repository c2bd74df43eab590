---------------------------- MODULE NoteHolding ----------------------------
(***************************************************************************)
(* What moving notes promises the people at the board, without leases,     *)
(* versions, receipts and rows: whoever holds notes holds them together,   *)
(* and a note changes its place only in the hands of its holder, or while  *)
(* nobody holds it.                                                        *)
(***************************************************************************)
EXTENDS Integers, FiniteSets

CONSTANTS
    Notes, None, OffBoard,
    Movers,    \* those who hold notes to put them down at once
    Draggers   \* those who hold one note and show it wherever it is

VARIABLES
    place,     \* where each note lies, OffBoard while it is private
    holder,    \* who holds it
    settled,   \* the movers whose notes were put down
    lapsed,    \* holders that stopped answering: anybody may take their notes
    era        \* how often the phase went on or was rolled back

Holders == Movers \cup Draggers

vars == <<place, holder, settled, lapsed, era>>

Holding(h) == {n \in Notes : holder[n] = h}

Free(n) == holder[n] = None \/ holder[n] \in lapsed

\* Nobody but `who` gets notes, and nobody loses some notes and keeps others.
OnlyTaker(who) ==
    \A h \in Holders \ {who} : Holding(h)' \in {Holding(h), {}}

\* The notes whose place the step changes.
Moved == {n \in Notes : place'[n] # place[n]}

Init == holder = [n \in Notes |-> None] /\ settled = {} /\ lapsed = {} /\ era = 1

\* Somebody takes notes that are free.
Take(h) ==
    /\ Holding(h) = {} /\ Holding(h)' # {}
    /\ \A n \in Holding(h)' : Free(n)
    /\ OnlyTaker(h) /\ Moved = {}

\* Some holders give their notes back, willingly or not.
GiveBack == OnlyTaker(None) /\ Moved = {}

\* A mover that answers puts all its notes down at the same distance from
\* where they were, and is done.
Put(h) ==
    /\ h \notin lapsed /\ h \in settled' \ settled
    /\ Moved # {} /\ Moved = Holding(h) /\ Holding(h)' = {}
    /\ \A n, k \in Moved : place'[n] - place[n] = place'[k] - place[k]
    /\ OnlyTaker(None)

\* A dragger changes the place of its note and may let go of it.
Write(h) ==
    /\ h \notin lapsed /\ Cardinality(Moved) = 1 /\ Moved = Holding(h)
    /\ OnlyTaker(None)

\* A note nobody holds is moved, or several are put back.
MoveFree == Moved # {} /\ (\A n \in Moved : Free(n)) /\ OnlyTaker(None)

\* Its author puts a private note on the board.
Appear(n) == Moved = {n} /\ place[n] = OffBoard /\ OnlyTaker(None)

\* The phase goes on or back: everything is let go of, and only then may a
\* held note lie elsewhere afterwards.
Rewind == era' = era + 1 /\ holder' = [n \in Notes |-> None]

Next ==
    \/ Rewind
    \/ /\ era' = era
       /\ \/ GiveBack \/ MoveFree
          \/ \E h \in Holders : Take(h)
          \/ \E h \in Movers : Put(h)
          \/ \E h \in Draggers : Write(h)
          \/ \E n \in Notes : Appear(n)

Spec == Init /\ [][Next]_vars
=============================================================================
