------------------------- MODULE ConnectionPoolProofs -------------------------
(***************************************************************************)
(* Proofs about ConnectionPool for any finite sets of callers and of       *)
(* connections, any pool size and any number of waits.                     *)
(***************************************************************************)
EXTENDS ConnectionPool, FiniteSetTheorems, TLAPS

USE ThreadsAssumption, ConnsAssumption, SizeAssumption, BoundsAssumption

-------------------------------------------------------------------------------
(* The inductive invariant.                                                *)

\* A caller carries a connection from taking or minting it to returning it.
CarriesByStage ==
    \A t \in Threads :
        thread[t].conn # NoConn <=>
            thread[t].stage \in {"probing", "discarding", "minted", "holding", "returning"}

\* EveryConnectionHasOnePlace with one quantified part for each of its uses.
OnePlace ==
    /\ \A c \in idle : c \in open
    /\ \A t \in Threads : thread[t].conn # NoConn =>
          thread[t].conn \in open /\ thread[t].conn \notin idle
    /\ \A t, u \in Threads :
          thread[t].conn # NoConn /\ thread[t].conn = thread[u].conn => t = u
    /\ \A c \in open : c \in idle \/ \E t \in Threads : thread[t].conn = c

\* A connection on its way through the queue is in a transaction only if it is
\* broken, so that its validation fails; a minted one is in none.
CleanQueue ==
    /\ \A c \in dirty : c \in open
    /\ \A c \in idle : c \in dirty => c \in broken
    /\ \A t \in Threads :
          /\ thread[t].stage \in {"probing", "returning"} /\ thread[t].conn \in dirty
             => thread[t].conn \in broken
          /\ thread[t].stage = "minted" => thread[t].conn \notin dirty

\* The count, open or not: a closed pool forgets to count connections it drained.
CountCovers == created >= Cardinality(Kept) + Cardinality(Creators)

Typed ==
    /\ phase \in {"open", "draining", "closed"}
    /\ created \in Int
    /\ created <= MaxSize
    /\ idle \subseteq Conns
    /\ open \subseteq Conns
    /\ dirty \subseteq Conns
    /\ broken \subseteq Conns
    /\ thread \in [Threads -> Thread]
    /\ started \in 0..MaxCheckouts

IInv ==
    /\ Typed
    /\ CarriesByStage
    /\ OnePlace
    /\ CleanQueue
    /\ CountCovers
    /\ CountIsExact

\* The places and the transactions need no cardinalities.
Places == Typed /\ CarriesByStage /\ OnePlace /\ CleanQueue

-------------------------------------------------------------------------------
\* A step that moves no caller: its flags at most.
FlagsOnly ==
    \A t \in Threads :
        thread'[t].stage = thread[t].stage /\ thread'[t].conn = thread[t].conn

LEMMA FlagsStep ==
    ASSUME Places, thread' \in [Threads -> Thread], FlagsOnly,
           UNCHANGED <<phase, created, idle, open, dirty, broken, started>>
    PROVE  Places'
<1>1. Typed' /\ CarriesByStage'
  BY DEF Places, Typed, CarriesByStage, FlagsOnly
<1>2. OnePlace'
  <2>1. \A c \in open : c \in idle \/ \E t \in Threads : thread'[t].conn = c
    BY DEF Places, OnePlace, FlagsOnly
  <2>2. \A t, u \in Threads :
           thread'[t].conn # NoConn /\ thread'[t].conn = thread'[u].conn => t = u
    BY DEF Places, OnePlace, FlagsOnly
  <2>3. \A t \in Threads : thread'[t].conn # NoConn =>
           thread'[t].conn \in open /\ thread'[t].conn \notin idle
    BY DEF Places, OnePlace, FlagsOnly
  <2> QED BY <2>1, <2>2, <2>3 DEF Places, OnePlace
<1>3. CleanQueue'
  BY DEF Places, CleanQueue, FlagsOnly
<1> QED BY <1>1, <1>2, <1>3 DEF Places

\* Passing a deadline and cancelling a borrower set a flag of its thread.
LEMMA FlagSet ==
    ASSUME thread \in [Threads -> Thread], NEW t \in Threads,
           \/ thread' = [thread EXCEPT ![t].late = TRUE]
           \/ thread' = [thread EXCEPT ![t].cancelled = TRUE]
    PROVE  thread' \in [Threads -> Thread] /\ FlagsOnly
<1>1. thread[t] \in Thread
  OBVIOUS
<1>2. CASE thread' = [thread EXCEPT ![t].late = TRUE]
  <2> DEFINE flagged == [thread[t] EXCEPT !.late = TRUE]
  <2>1. /\ flagged \in Thread
        /\ flagged.stage = thread[t].stage /\ flagged.conn = thread[t].conn
    BY <1>1 DEF Thread
  <2>2. thread' = [thread EXCEPT ![t] = flagged]
    BY <1>2
  <2> HIDE DEF flagged
  <2> QED BY <2>1, <2>2 DEF FlagsOnly
<1>3. CASE thread' = [thread EXCEPT ![t].cancelled = TRUE]
  <2> DEFINE flagged == [thread[t] EXCEPT !.cancelled = TRUE]
  <2>1. /\ flagged \in Thread
        /\ flagged.stage = thread[t].stage /\ flagged.conn = thread[t].conn
    BY <1>1 DEF Thread
  <2>2. thread' = [thread EXCEPT ![t] = flagged]
    BY <1>3
  <2> HIDE DEF flagged
  <2> QED BY <2>1, <2>2 DEF FlagsOnly
<1> QED BY <1>2, <1>3

LEMMA StepPlaces ==
    ASSUME Places, [Next]_vars
    PROVE  Places'
<1> USE DEF Places, Typed, CarriesByStage, OnePlace, CleanQueue, Thread, Out, At, AtWith, Left, Close
<1>1. ASSUME NEW t \in Threads, Checkout(t) PROVE Places'
  BY <1>1 DEF Checkout
<1>2. ASSUME NEW t \in Threads, Enter(t) PROVE Places'
  BY <1>2 DEF Enter
<1>3. ASSUME NEW t \in Threads, TakeIdle(t) PROVE Places'
  BY <1>3 DEF TakeIdle
<1>4. ASSUME NEW t \in Threads, GiveUp(t) PROVE Places'
  BY <1>4 DEF GiveUp
<1>5. ASSUME NEW t \in Threads, Reserve(t) PROVE Places'
  BY <1>5 DEF Reserve, TakeSlot
<1>6. ASSUME NEW t \in Threads, Block(t) PROVE Places'
  BY <1>6 DEF Block
<1>7. ASSUME NEW t \in Threads, WaitTimesOut(t) PROVE Places'
  BY <1>7 DEF WaitTimesOut
<1>8. ASSUME NEW t \in Threads, Validate(t) PROVE Places'
  BY <1>8 DEF Validate
<1>9. ASSUME NEW t \in Threads, Discard(t) PROVE Places'
  BY <1>9 DEF Discard
<1>10. ASSUME NEW t \in Threads, Create(t) PROVE Places'
  BY <1>10 DEF Create
<1>11. ASSUME NEW t \in Threads, CreateFails(t) PROVE Places'
  BY <1>11 DEF CreateFails
<1>12. ASSUME NEW t \in Threads, HandOut(t) PROVE Places'
  BY <1>12 DEF HandOut
<1>13. ASSUME NEW t \in Threads, RefuseMinted(t) PROVE Places'
  BY <1>13 DEF RefuseMinted
<1>14. ASSUME NEW t \in Threads, Use(t) PROVE Places'
  BY <1>14 DEF Use
<1>15. ASSUME NEW t \in Threads, Release(t) PROVE Places'
  <2>1. /\ thread[t].conn \in open /\ thread[t].conn \notin idle /\ thread[t].conn # NoConn
        /\ thread[t] \in Thread
    BY <1>15 DEF Release
  <2>2. CASE phase = "open" /\ dirty' = dirty \ {thread[t].conn}
    BY <1>15, <2>1, <2>2 DEF Release
  <2>3. CASE phase = "open" /\ thread[t].conn \in broken /\ UNCHANGED dirty
    BY <1>15, <2>1, <2>3 DEF Release
  <2>4. CASE phase # "open"
    <3>1. /\ thread' = [thread EXCEPT ![t] = Out] /\ UNCHANGED <<phase, created, idle, started>>
          /\ open' = open \ {thread[t].conn} /\ dirty' = dirty \ {thread[t].conn}
          /\ broken' = broken \ {thread[t].conn}
      BY <1>15, <2>4 DEF Release
    <3>2. Typed'
      BY <3>1
    <3>3. CarriesByStage' /\ OnePlace'
      BY <2>1, <3>1
    <3>4. CleanQueue'
      BY <2>1, <3>1
    <3> QED BY <3>2, <3>3, <3>4
  <2> QED BY <1>15, <2>2, <2>3, <2>4 DEF Release
<1>16. ASSUME NEW t \in Threads, Return(t) PROVE Places'
  BY <1>16 DEF Return
<1>17. ASSUME NEW t \in Threads, FindEmpty(t) PROVE Places'
  BY <1>17 DEF FindEmpty
<1>18. ASSUME NEW t \in Threads, CloseDiscarded(t) PROVE Places'
  BY <1>18 DEF CloseDiscarded
<1>19. ASSUME NEW t \in Threads, Cancel(t) PROVE Places'
  <2>1. CASE thread' = [thread EXCEPT ![t].cancelled = TRUE]
    <3> HIDE DEF Places, Typed, CarriesByStage, OnePlace, CleanQueue, Thread
    <3>1. thread \in [Threads -> Thread]
      BY DEF Places, Typed
    <3>2. UNCHANGED <<phase, created, idle, open, dirty, broken, started>>
      BY <1>19 DEF Cancel
    <3>3. thread' \in [Threads -> Thread] /\ FlagsOnly
      BY <2>1, <3>1, FlagSet
    <3> QED BY <3>2, <3>3, FlagsStep
  <2>2. CASE thread[t].stage = "queued" /\ thread' = [thread EXCEPT ![t] = Out]
    BY <1>19, <2>2 DEF Cancel
  <2> QED BY <1>19, <2>1, <2>2 DEF Cancel
<1>20. ASSUME NEW t \in Threads, DeadlinePasses(t) PROVE Places'
  <2> HIDE DEF Places, Typed, CarriesByStage, OnePlace, CleanQueue, Thread
  <2>1. thread \in [Threads -> Thread]
    BY DEF Places, Typed
  <2>2. /\ thread' = [thread EXCEPT ![t].late = TRUE]
        /\ UNCHANGED <<phase, created, idle, open, dirty, broken, started>>
    BY <1>20 DEF DeadlinePasses
  <2>3. thread' \in [Threads -> Thread] /\ FlagsOnly
    BY <2>1, <2>2, FlagSet
  <2> QED BY <2>2, <2>3, FlagsStep
<1>21. CASE CloseBegin
  BY <1>21 DEF CloseBegin
<1>22. CASE Drain
  BY <1>22 DEF Drain
<1>23. CASE CloseEnd
  BY <1>23 DEF CloseEnd
<1>24. CASE UNCHANGED vars
  BY <1>24 DEF vars
<1> QED
  BY <1>1, <1>2, <1>3, <1>4, <1>5, <1>6, <1>7, <1>8, <1>9, <1>10, <1>11, <1>12, <1>13,
     <1>14, <1>15, <1>16, <1>17, <1>18, <1>19, <1>20, <1>21, <1>22, <1>23, <1>24
  DEF Next, CheckoutStep

-------------------------------------------------------------------------------
(* The count.                                                              *)

Counts == CountCovers /\ CountIsExact

LEMMA Finite ==
    ASSUME Typed
    PROVE  /\ IsFiniteSet(Kept) /\ Cardinality(Kept) \in Nat
           /\ IsFiniteSet(Creators) /\ Cardinality(Creators) \in Nat
<1>1. IsFiniteSet(Kept)
  BY FS_Subset DEF Typed, Kept
<1>2. IsFiniteSet(Creators)
  BY FS_Subset DEF Creators
<1> QED BY <1>1, <1>2, FS_CardinalityType

\* A step that moves neither the count, nor a kept connection, nor a reservation.
LEMMA SameCounts ==
    ASSUME Counts, created' = created, Kept' = Kept, Creators' = Creators,
           phase' = "open" => phase = "open"
    PROVE  Counts'
BY DEF Counts, CountCovers, CountIsExact

\* What a caller carries without discarding it, the pool has not given up on.
LEMMA CarriedIsKept ==
    ASSUME NEW t \in Threads, Places,
           thread[t].stage \in {"probing", "minted", "holding", "returning"}
    PROVE  thread[t].conn \in Kept /\ thread[t].conn \notin idle
<1>1. /\ thread[t].conn # NoConn /\ thread[t].conn \in open /\ thread[t].conn \notin idle
      /\ \A u \in Threads : thread[u].conn = thread[t].conn => u = t
  BY DEF Places, CarriesByStage, OnePlace
<1> QED BY <1>1 DEF Kept

\* An open pool's queue has room for a connection that comes back.
LEMMA QueueHasRoom ==
    ASSUME NEW t \in Threads, Places, CountIsExact, phase = "open",
           thread[t].stage = "returning"
    PROVE  Cardinality(idle) < MaxSize
<1>1. thread[t].conn \in Kept /\ thread[t].conn \notin idle
  BY CarriedIsKept
<1>2. IsFiniteSet(Kept) /\ Cardinality(Kept) \in Nat /\ Cardinality(Creators) \in Nat
  BY Finite DEF Places
<1>3. idle \subseteq Kept
  <2>1. \A c \in idle : c \in open /\ c # NoConn
    BY DEF Places, Typed, OnePlace
  <2>2. \A c \in idle : \A u \in Threads : thread[u].conn # c
    BY <2>1 DEF Places, OnePlace
  <2> QED BY <2>1, <2>2 DEF Kept
<1>4. /\ IsFiniteSet(Kept \ {thread[t].conn})
      /\ Cardinality(Kept \ {thread[t].conn}) = Cardinality(Kept) - 1
  BY <1>1, <1>2, FS_RemoveElement
<1>5. Cardinality(idle) \in Nat /\ Cardinality(idle) <= Cardinality(Kept) - 1
  BY <1>1, <1>3, <1>4, FS_Subset, FS_CardinalityType
<1>6. created = Cardinality(Kept) + Cardinality(Creators) /\ created <= MaxSize
  BY DEF CountIsExact, Places, Typed
<1> QED BY <1>2, <1>5, <1>6

\* A connection closed outside an open pool.
LEMMA ClosingCounts ==
    ASSUME Typed, Counts, NEW c \in Kept, Kept' = Kept \ {c}, created' = created,
           Creators' = Creators, phase # "open", phase' = phase
    PROVE  Counts'
<1>1. Cardinality(Kept') = Cardinality(Kept) - 1
  BY Finite, FS_RemoveElement
<1>2. Cardinality(Kept) \in Nat /\ Cardinality(Creators) \in Nat /\ created \in Int
  BY Finite DEF Typed
<1>3. CountCovers'
  BY <1>1, <1>2 DEF Counts, CountCovers
<1>4. CountIsExact'
  BY DEF CountIsExact
<1> QED BY <1>3, <1>4 DEF Counts

\* A connection closed together with its slot.
LEMMA DiscardCounts ==
    ASSUME Typed, Counts, NEW c \in Kept, Kept' = Kept \ {c}, created' = created - 1,
           Creators' = Creators, phase' = phase
    PROVE  Counts'
<1>1. Cardinality(Kept') = Cardinality(Kept) - 1
  BY Finite, FS_RemoveElement
<1>2. Cardinality(Kept) \in Nat /\ Cardinality(Creators) \in Nat /\ created \in Int
  BY Finite DEF Typed
<1>3. CountCovers'
  BY <1>1, <1>2 DEF Counts, CountCovers
<1>4. /\ phase = "open" => created = Cardinality(Kept) + Cardinality(Creators)
      /\ CountIsExact' <=>
            (phase' = "open" => created' = Cardinality(Kept') + Cardinality(Creators'))
  BY DEF Counts, CountIsExact
<1>5. CountIsExact'
  BY <1>1, <1>2, <1>4
<1> QED BY <1>3, <1>5 DEF Counts

\* A slot reserved by a caller that is not creating yet.
LEMMA ReserveCounts ==
    ASSUME Typed, Counts, NEW t \in Threads, t \notin Creators, Kept' = Kept,
           created' = created + 1, Creators' = Creators \cup {t}, phase' = phase
    PROVE  Counts'
<1>1. Cardinality(Creators') = Cardinality(Creators) + 1
  BY Finite, FS_AddElement
<1>2. Cardinality(Kept) \in Nat /\ Cardinality(Creators) \in Nat /\ created \in Int
  BY Finite DEF Typed
<1>3. CountCovers'
  BY <1>1, <1>2 DEF Counts, CountCovers
<1>4. /\ phase = "open" => created = Cardinality(Kept) + Cardinality(Creators)
      /\ CountIsExact' <=>
            (phase' = "open" => created' = Cardinality(Kept') + Cardinality(Creators'))
  BY DEF Counts, CountIsExact
<1>5. CountIsExact'
  BY <1>1, <1>2, <1>4
<1> QED BY <1>3, <1>5 DEF Counts

\* A slot given back by the caller that had reserved it.
LEMMA GiveBackCounts ==
    ASSUME Typed, Counts, NEW t \in Creators, Kept' = Kept,
           created' = created - 1, Creators' = Creators \ {t}, phase' = phase
    PROVE  Counts'
<1>1. Cardinality(Creators') = Cardinality(Creators) - 1
  BY Finite, FS_RemoveElement
<1>2. Cardinality(Kept) \in Nat /\ Cardinality(Creators) \in Nat /\ created \in Int
  BY Finite DEF Typed
<1>3. CountCovers'
  BY <1>1, <1>2 DEF Counts, CountCovers
<1>4. /\ phase = "open" => created = Cardinality(Kept) + Cardinality(Creators)
      /\ CountIsExact' <=>
            (phase' = "open" => created' = Cardinality(Kept') + Cardinality(Creators'))
  BY DEF Counts, CountIsExact
<1>5. CountIsExact'
  BY <1>1, <1>2, <1>4
<1> QED BY <1>3, <1>5 DEF Counts

\* A slot that becomes a connection.
LEMMA CreateCounts ==
    ASSUME Typed, Counts, NEW t \in Creators, NEW c, c \notin Kept,
           Kept' = Kept \cup {c}, created' = created,
           Creators' = Creators \ {t}, phase' = phase
    PROVE  Counts'
<1>1. /\ Cardinality(Creators') = Cardinality(Creators) - 1
      /\ Cardinality(Kept') = Cardinality(Kept) + 1
  BY Finite, FS_RemoveElement, FS_AddElement
<1>2. Cardinality(Kept) \in Nat /\ Cardinality(Creators) \in Nat /\ created \in Int
  BY Finite DEF Typed
<1>3. CountCovers'
  BY <1>1, <1>2 DEF Counts, CountCovers
<1>4. /\ phase = "open" => created = Cardinality(Kept) + Cardinality(Creators)
      /\ CountIsExact' <=>
            (phase' = "open" => created' = Cardinality(Kept') + Cardinality(Creators'))
  BY DEF Counts, CountIsExact
<1>5. CountIsExact'
  BY <1>1, <1>2, <1>4
<1> QED BY <1>3, <1>5 DEF Counts

LEMMA StepCounts ==
    ASSUME Places, Counts, [Next]_vars
    PROVE  Counts'
<1> USE DEF At, AtWith, Left
<1>0. Typed
  BY DEF Places
<1> DEFINE Quiet(t) == /\ UNCHANGED <<created, open>>
                       /\ phase' = "open" => phase = "open"
                       /\ \A u \in Threads : u # t => thread'[u] = thread[u]
                       /\ thread[t].stage \notin {"creating", "discarding"}
                       /\ thread'[t].stage \notin {"creating", "discarding"}
<1>q. ASSUME NEW t \in Threads, Quiet(t) PROVE Counts'
  <2>1. Creators' = Creators /\ Kept' = Kept
    BY <1>q DEF Creators, Kept
  <2> QED BY <1>q, <2>1, SameCounts
<1>1. ASSUME NEW t \in Threads, Checkout(t) PROVE Counts'
  <2>1. Quiet(t) BY <1>0, <1>1 DEF Checkout, Typed, Thread
  <2> QED BY <1>q, <2>1
<1>2. ASSUME NEW t \in Threads, Enter(t) PROVE Counts'
  <2>1. Quiet(t) BY <1>0, <1>2 DEF Enter, Typed, Thread, Out
  <2> QED BY <1>q, <2>1
<1>3. ASSUME NEW t \in Threads, TakeIdle(t) PROVE Counts'
  <2>1. Quiet(t) BY <1>0, <1>3 DEF TakeIdle, Typed, Thread
  <2> QED BY <1>q, <2>1
<1>4. ASSUME NEW t \in Threads, GiveUp(t) PROVE Counts'
  <2>1. Quiet(t) BY <1>0, <1>4 DEF GiveUp, Typed, Thread, Out
  <2> QED BY <1>q, <2>1
<1>5. ASSUME NEW t \in Threads, Reserve(t) PROVE Counts'
  <2>1. t \notin Creators /\ Creators' = Creators \cup {t}
    BY <1>0, <1>5 DEF Reserve, TakeSlot, Typed, Creators, Thread
  <2>2. Kept' = Kept /\ created' = created + 1 /\ phase' = phase
    BY <1>0, <1>5 DEF Reserve, TakeSlot, Typed, Kept, Thread
  <2> QED BY <1>0, <2>1, <2>2, ReserveCounts
<1>6. ASSUME NEW t \in Threads, Block(t) PROVE Counts'
  <2>1. Quiet(t) BY <1>0, <1>6 DEF Block, Typed, Thread
  <2> QED BY <1>q, <2>1
<1>7. ASSUME NEW t \in Threads, WaitTimesOut(t) PROVE Counts'
  <2>1. Quiet(t) BY <1>0, <1>7 DEF WaitTimesOut, Typed, Thread, Out
  <2> QED BY <1>q, <2>1
<1>8. ASSUME NEW t \in Threads, Validate(t) PROVE Counts'
  <2>1. Quiet(t) BY <1>0, <1>8 DEF Validate, Typed, Thread
  <2> QED BY <1>q, <2>1
<1>9. ASSUME NEW t \in Threads, Discard(t) PROVE Counts'
  <2>1. Creators' = Creators /\ Kept' = Kept \ {thread[t].conn}
    BY <1>0, <1>9 DEF Discard, Typed, Creators, Kept, Thread
  <2>2. created' = created - 1 /\ phase' = phase /\ thread[t].conn \in Kept
    BY <1>9, CarriedIsKept DEF Discard
  <2> QED BY <1>0, <2>1, <2>2, DiscardCounts
<1>10. ASSUME NEW t \in Threads, CloseDiscarded(t) PROVE Counts'
  <2>1. Creators' = Creators /\ Kept' = Kept
    BY <1>0, <1>10 DEF CloseDiscarded, Close, Typed, Creators, Kept, Thread, Out
  <2> QED BY <1>10, <2>1, SameCounts DEF CloseDiscarded
<1>11. ASSUME NEW t \in Threads, Create(t) PROVE Counts'
  <2>1. PICK c \in Conns \ open : open' = open \cup {c} /\ thread' = AtWith(t, "minted", c)
    BY <1>11 DEF Create
  <2>2. t \in Creators /\ created' = created /\ phase' = phase
    BY <1>11 DEF Create, Creators
  <2>3. Creators' = Creators \ {t}
    BY <1>0, <2>1 DEF Typed, Creators, Thread
  <2>4. thread[t].stage = "creating"
    BY <1>11 DEF Create
  <2>5. \A u \in Threads : thread[u].stage = "discarding" => thread[u].conn # c
    BY <2>1 DEF Places, CarriesByStage, OnePlace
  <2>6. c \notin Kept /\ Kept' = Kept \cup {c}
    BY <1>0, <2>1, <2>4, <2>5 DEF Typed, Kept, Thread
  <2> QED BY <1>0, <2>2, <2>3, <2>6, CreateCounts
<1>12. ASSUME NEW t \in Threads, CreateFails(t) PROVE Counts'
  <2>1. t \in Creators /\ Creators' = Creators \ {t}
    BY <1>0, <1>12 DEF CreateFails, Typed, Creators, Thread, Out
  <2>2. Kept' = Kept /\ created' = created - 1 /\ phase' = phase
    BY <1>0, <1>12 DEF CreateFails, Typed, Kept, Thread, Out
  <2> QED BY <1>0, <2>1, <2>2, GiveBackCounts
<1>13. ASSUME NEW t \in Threads, HandOut(t) PROVE Counts'
  <2>1. Quiet(t) BY <1>0, <1>13 DEF HandOut, Typed, Thread
  <2> QED BY <1>q, <2>1
<1>14. ASSUME NEW t \in Threads, RefuseMinted(t) PROVE Counts'
  <2>1. Creators' = Creators /\ Kept' = Kept \ {thread[t].conn}
    BY <1>0, <1>14 DEF RefuseMinted, Close, Typed, Creators, Kept, Thread, Out
  <2>2. created' = created - 1 /\ phase' = phase /\ thread[t].conn \in Kept
    BY <1>14, CarriedIsKept DEF RefuseMinted
  <2> QED BY <1>0, <2>1, <2>2, DiscardCounts
<1>15. ASSUME NEW t \in Threads, Use(t) PROVE Counts'
  <2>1. Quiet(t) BY <1>0, <1>15 DEF Use, Typed
  <2> QED BY <1>q, <2>1
<1>16. ASSUME NEW t \in Threads, Release(t) PROVE Counts'
  <2>1. CASE phase = "open"
    <3>1. Quiet(t) BY <1>0, <1>16, <2>1 DEF Release, Typed, Thread
    <3> QED BY <1>q, <3>1
  <2>2. CASE phase # "open"
    <3>1. Creators' = Creators /\ Kept' = Kept \ {thread[t].conn}
      BY <1>0, <1>16, <2>2 DEF Release, Close, Typed, Creators, Kept, Thread, Out
    <3>2. created' = created /\ phase' = phase /\ thread[t].conn \in Kept
      BY <1>16, CarriedIsKept DEF Release
    <3> QED BY <1>0, <2>2, <3>1, <3>2, ClosingCounts
  <2> QED BY <2>1, <2>2
<1>17. ASSUME NEW t \in Threads, Return(t) PROVE Counts'
  <2>1. CASE Cardinality(idle) < MaxSize
    <3>1. Quiet(t) BY <1>0, <1>17, <2>1 DEF Return, Typed, Thread, Out
    <3> QED BY <1>q, <3>1
  <2>2. CASE ~(Cardinality(idle) < MaxSize)
    <3>1. phase # "open"
      BY <1>17, <2>2, QueueHasRoom DEF Counts, Return
    <3>2. Creators' = Creators /\ Kept' = Kept \ {thread[t].conn}
      BY <1>0, <1>17, <2>2 DEF Return, Close, Typed, Creators, Kept, Thread, Out
    <3>3. created' = created /\ phase' = phase /\ thread[t].conn \in Kept
      BY <1>17, CarriedIsKept DEF Return
    <3> QED BY <1>0, <3>1, <3>2, <3>3, ClosingCounts
  <2> QED BY <2>1, <2>2
<1>18. ASSUME NEW t \in Threads, Cancel(t) PROVE Counts'
  <2>1. Creators' = Creators /\ Kept' = Kept
    BY <1>0, <1>18 DEF Cancel, Typed, Creators, Kept, Thread, Out
  <2> QED BY <1>18, <2>1, SameCounts DEF Cancel
<1>19. ASSUME NEW t \in Threads, DeadlinePasses(t) PROVE Counts'
  <2>1. Creators' = Creators /\ Kept' = Kept
    BY <1>0, <1>19 DEF DeadlinePasses, Typed, Creators, Kept, Thread
  <2> QED BY <1>19, <2>1, SameCounts DEF DeadlinePasses
<1>20. CASE CloseBegin
  BY <1>20, SameCounts DEF CloseBegin, Creators, Kept
<1>21. CASE Drain
  <2>1. PICK c \in idle : open' = open \ {c}
    BY <1>21 DEF Drain, Close
  <2>2. c \in open /\ c # NoConn
    BY <2>1 DEF Places, Typed, OnePlace
  <2>3. \A u \in Threads : thread[u].conn # c
    BY <2>1, <2>2 DEF Places, OnePlace
  <2>4. phase # "open" /\ phase' = phase /\ created' = created /\ thread' = thread
    BY <1>21 DEF Drain
  <2>5. Creators' = Creators /\ c \in Kept /\ Kept' = Kept \ {c}
    BY <2>1, <2>2, <2>3, <2>4 DEF Creators, Kept
  <2> QED BY <1>0, <2>4, <2>5, ClosingCounts
<1>22. CASE CloseEnd
  BY <1>22, SameCounts DEF CloseEnd, Creators, Kept
<1>23. CASE UNCHANGED vars
  BY <1>23, SameCounts DEF vars, Creators, Kept
<1>24. ASSUME NEW t \in Threads, FindEmpty(t) PROVE Counts'
  <2>1. Quiet(t) BY <1>0, <1>24 DEF FindEmpty, Typed, Thread
  <2> QED BY <1>q, <2>1
<1> QED
  BY <1>1, <1>2, <1>3, <1>4, <1>5, <1>6, <1>7, <1>8, <1>9, <1>10, <1>11, <1>12, <1>13,
     <1>14, <1>15, <1>16, <1>17, <1>18, <1>19, <1>20, <1>21, <1>22, <1>23, <1>24
  DEF Next, CheckoutStep

-------------------------------------------------------------------------------
LEMMA InitInv == Init => IInv
<1> SUFFICES ASSUME Init PROVE IInv
  OBVIOUS
<1>1. Typed /\ CarriesByStage /\ OnePlace /\ CleanQueue
  BY DEF Init, Typed, CarriesByStage, OnePlace, CleanQueue, Thread, Out
<1>2. Creators = {} /\ Kept = {} /\ created = 0
  BY DEF Init, Creators, Kept, Out
<1>3. Cardinality(Kept) = 0 /\ Cardinality(Creators) = 0
  BY <1>2, FS_EmptySet
<1>4. CountCovers /\ CountIsExact
  BY <1>2, <1>3 DEF CountCovers, CountIsExact
<1> QED BY <1>1, <1>4 DEF IInv

LEMMA StepInv == IInv /\ [Next]_vars => IInv'
BY StepPlaces, StepCounts DEF IInv, Places, Counts

LEMMA Invariance == Spec => []IInv
BY InitInv, StepInv, PTL DEF Spec

\* The count of connections stays between zero and the pool's size, and every
\* caller and every set of connections keeps its type, whatever the steps of
\* get_connection, release_connection and close_all.
THEOREM TypeCorrect == Spec => []TypeOK
<1>1. IInv => TypeOK
  <2> SUFFICES ASSUME IInv PROVE TypeOK
    OBVIOUS
  <2>1. created >= 0 /\ created \in Int /\ created <= MaxSize
    BY Finite DEF IInv, CountCovers, Typed
  <2> QED BY <2>1 DEF IInv, Typed, TypeOK
<1> QED BY <1>1, Invariance, PTL

\* While the pool is open, _created_count is exactly the connections that are
\* open and the slots reserved for a creation, through every failed validation,
\* failed creation and cancelled checkout.
THEOREM CountExact == Spec => []CountIsExact
<1>1. IInv => CountIsExact
  BY DEF IInv
<1> QED BY <1>1, Invariance, PTL

\* A connection is in the queue or with one caller, never with two and never
\* with none: get_connection and release_connection neither share nor lose one.
THEOREM OneHolder == Spec => []EveryConnectionHasOnePlace
<1>1. IInv => EveryConnectionHasOnePlace
  <2> SUFFICES ASSUME IInv PROVE EveryConnectionHasOnePlace
    OBVIOUS
  <2>1. /\ idle \subseteq open
        /\ \A t \in Carriers : thread[t].conn \in open \ idle
        /\ \A t, u \in Carriers : thread[t].conn = thread[u].conn => t = u
    BY DEF IInv, OnePlace, Carriers
  <2>2. \A c \in open : c # NoConn
    BY DEF IInv, Typed
  <2>3. open = idle \cup {thread[t].conn : t \in Carriers}
    BY <2>1, <2>2 DEF IInv, OnePlace, Carriers
  <2> QED BY <2>1, <2>3 DEF EveryConnectionHasOnePlace
<1> QED BY <1>1, Invariance, PTL

\* Whoever is handed a connection starts outside any transaction: the rollback
\* of release_connection and the validation of get_connection together keep an
\* earlier borrower's transaction from the next one.
THEOREM TransactionsStayHome == Spec => NoInheritedTransaction
<1> DEFINE Fresh == \A t \in Threads :
                       thread[t].stage # "holding" /\ thread'[t].stage = "holding"
                          => thread[t].conn \notin dirty
<1>1. IInv /\ [Next]_vars => [Fresh]_vars
  <2> SUFFICES ASSUME IInv, Next, NEW t \in Threads, thread[t].stage # "holding",
                      thread'[t].stage = "holding"
               PROVE  thread[t].conn \notin dirty
    OBVIOUS
  <2>1. thread \in [Threads -> Thread]
    BY DEF IInv, Typed
  <2>2. ASSUME NEW u \in Threads,
               \/ Checkout(u) \/ Enter(u) \/ TakeIdle(u) \/ FindEmpty(u) \/ GiveUp(u)
               \/ Reserve(u) \/ Block(u) \/ WaitTimesOut(u) \/ Discard(u)
               \/ CloseDiscarded(u) \/ Create(u)
               \/ CreateFails(u) \/ RefuseMinted(u) \/ Use(u) \/ Release(u)
               \/ Return(u) \/ Cancel(u) \/ DeadlinePasses(u)
        PROVE  FALSE
    <3>1. PICK r : thread' = [thread EXCEPT ![u] = r]
                   /\ (r.stage = "holding" => thread[u].stage = "holding")
      <4>1. CASE \/ Checkout(u) \/ Enter(u) \/ TakeIdle(u) \/ GiveUp(u) \/ Reserve(u)
                 \/ Block(u) \/ WaitTimesOut(u)
        BY <2>1, <4>1 DEF Checkout, Enter, TakeIdle, GiveUp, Reserve, TakeSlot,
                          Block, WaitTimesOut, At, AtWith, Left, Out, Thread
      <4>2. CASE \/ FindEmpty(u) \/ Discard(u) \/ CloseDiscarded(u) \/ Create(u) \/ CreateFails(u) \/ RefuseMinted(u)
        BY <2>1, <4>2 DEF FindEmpty, Discard, CloseDiscarded, Create, CreateFails, RefuseMinted,
                          At, AtWith, Left, Out, Thread
      <4>3. CASE Release(u) \/ Return(u)
        BY <2>1, <4>3 DEF Release, Return, At, Left, Out, Thread
      <4>4. CASE Use(u) \/ Cancel(u) \/ DeadlinePasses(u)
        BY <2>1, <4>4 DEF Use, Cancel, DeadlinePasses, Left, Out, Thread
      <4> QED BY <2>2, <4>1, <4>2, <4>3, <4>4
    <3> QED BY <2>1, <3>1
  <2>3. PICK u \in Threads : Validate(u) \/ HandOut(u)
    BY <2>2 DEF Next, CheckoutStep, CloseBegin, Drain, CloseEnd
  <2>4. u = t
    BY <2>1, <2>3 DEF Validate, HandOut, At
  <2> QED BY <2>3, <2>4 DEF Validate, HandOut, IInv, CleanQueue
<1> QED BY <1>1, Invariance, PTL DEF Spec, NoInheritedTransaction

===============================================================================
