--------------------------- MODULE Channel_proofs ---------------------------
(***************************************************************************)
(* No call times out too early, and no count of bytes leaves its range but *)
(* over a socket that has failed, for every timeout and all sizes.         *)
(***************************************************************************)
EXTENDS Channel, TLAPS

(* What the type invariant rests on: where the thread is in each call, and that
   the write behind a message is a write. *)
Place ==
  /\ pc = "idle" <=> call = "none"
  /\ call = "none" \/ pc = "look" => ~inner
  /\ pc = "look" => call \in {"write", "message"}

Saved ==
  /\ DOMAIN saved = 1 .. 2
  /\ saved[1] \in 0 .. MaxSize /\ saved[2] \in -MaxBelow .. saved[1]
  /\ saved[2] < 0 => SocketFailed

(* The type invariant in the parts in which it is proved. *)
ChannelOK ==
  /\ kind \in Kinds /\ connection \in {"open", "ended", "broken"}
  /\ incoming \in 0 .. MaxPipe /\ room \in 0 .. MaxPipe
  /\ noise \in 0 .. MaxNoise

FlagsOK == pending \in BOOLEAN /\ congested \in BOOLEAN /\ cancelled \in BOOLEAN

PlaceOK ==
  /\ call \in {"none", "read", "write", "message"} /\ pc \in {"idle", "io", "look", "wait"}
  /\ inner \in BOOLEAN
  /\ ending \in {"none", "error", "cancelled", "timeout"}
  /\ Place

CountsOK ==
  /\ size \in 0 .. MaxSize /\ bytes \in -MaxBelow .. size
  /\ bytes < 0 => SocketFailed
  /\ Saved

ClocksOK ==
  /\ elapsed \in Unset .. MaxTimeout + 1
  /\ still \in [{"read", "write"} -> 0 .. MaxTimeout + 1]

TypeInv == ChannelOK /\ FlagsOK /\ PlaceOK /\ CountsOK /\ ClocksOK

LEMMA TypeInit == Init => TypeInv
<1> SUFFICES ASSUME Init PROVE TypeInv
  OBVIOUS
<1> USE ChannelAssumption DEF Init
<1>1. ChannelOK
  BY DEF ChannelOK
<1>2. FlagsOK
  BY Zenon DEF FlagsOK
<1>3. PlaceOK
  BY DEF PlaceOK, Place
<1>4. CountsOK
  BY DEF CountsOK, Saved
<1>5. ClocksOK
  BY DEF ClocksOK, Unset
<1> QED BY <1>1, <1>2, <1>3, <1>4, <1>5 DEF TypeInv

LEMMA FlagsStep ==
  ASSUME FlagsOK, [Next]_vars
  PROVE  FlagsOK'
<1> USE DEF FlagsOK
<1>1. ASSUME NEW n, Took(n)
      PROVE  pending' \in BOOLEAN /\ congested' \in BOOLEAN
  BY <1>1, Zenon DEF Took
<1>2. ASSUME NEW n, Gave(n)
      PROVE  pending' \in BOOLEAN /\ congested' \in BOOLEAN
  BY <1>2, Zenon DEF Gave
<1>3. CASE Moves
  BY <1>1, <1>2, <1>3, Zenon DEF Moves, Read
<1>4. CASE MovesNothing \/ MinusOne \/ Throws
  BY <1>4, <1>1, <1>2, Zenon DEF MovesNothing, MinusOne, Throws, ReadsNothing, WritesNothing,
     ReadMinusOne, WriteMinusOne, ReadThrows, WriteThrows
<1>5. CASE LookedInVain \/ LookThrows
  BY <1>5, <1>1, Zenon DEF LookedInVain, LookThrows, ReadsNothing, ReadMinusOne, ReadThrows
<1>6. CASE LookedAtData \/ LookedAtMessage
  BY <1>6, <1>1, Zenon DEF LookedAtData, LookedAtMessage, Read, ReadMinusOne
<1>7. CASE Begin \/ EndMessage \/ EndCall \/ Wait \/ Cancel \/ Tick \/ UNCHANGED vars
  BY <1>7, Zenon DEF Begin, EndMessage, EndCall, Wait, Cancel, Tick, vars, channel
<1>8. CASE RemoteSends \/ RemoteReads \/ Congestion \/ Noise \/ ConnectionLost
  BY <1>8, Zenon DEF RemoteSends, RemoteReads, Congestion, Noise, ConnectionLost
<1> QED BY <1>3, <1>4, <1>5, <1>6, <1>7, <1>8 DEF Next, Thread, Environment

LEMMA ChannelStep ==
  ASSUME ChannelOK, [Next]_vars
  PROVE  /\ ChannelOK'
         /\ kind' = kind
         /\ connection' = "open" => connection = "open"
<1> USE ChannelAssumption DEF ChannelOK
<1>1. ASSUME NEW n \in Int, n >= 0, n <= incoming, Took(n)
      PROVE  ChannelOK' /\ kind' = kind /\ connection' = connection
  BY <1>1 DEF Took
<1>2. ASSUME NEW n \in Int, n >= 0, n <= room, Gave(n)
      PROVE  ChannelOK' /\ kind' = kind /\ connection' = connection
  BY <1>2 DEF Gave
<1>3. CASE Moves
  <2>1. PICK n \in 1 .. Offered : IF Reading THEN Read(n) ELSE CanWrite /\ n <= room /\ Gave(n)
    BY <1>3 DEF Moves
  <2>2. n \in Int /\ n >= 0
    OBVIOUS
  <2> QED BY <2>1, <2>2, <1>1, <1>2 DEF Read
<1>4. CASE MovesNothing \/ MinusOne \/ Throws
  BY <1>4, <1>1, <1>2 DEF MovesNothing, MinusOne, Throws, ReadsNothing, WritesNothing, ReadMinusOne,
     WriteMinusOne, ReadThrows, WriteThrows
<1>5. CASE LookedInVain \/ LookThrows
  BY <1>5, <1>1 DEF LookedInVain, LookThrows, ReadsNothing, ReadMinusOne, ReadThrows
<1>6. CASE LookedAtData \/ LookedAtMessage
  BY <1>6, <1>1 DEF LookedAtData, LookedAtMessage, Read, ReadMinusOne
<1>7. CASE UNCHANGED channel
  BY <1>7 DEF channel
<1>8. CASE Begin \/ EndMessage \/ EndCall \/ Wait \/ Cancel \/ Tick \/ UNCHANGED vars
  BY <1>7, <1>8 DEF Begin, EndMessage, EndCall, Wait, Cancel, Tick, vars
<1>9. CASE RemoteSends \/ RemoteReads \/ Congestion \/ Noise \/ ConnectionLost
  BY <1>9 DEF RemoteSends, RemoteReads, Congestion, Noise, ConnectionLost
<1> QED BY <1>3, <1>4, <1>5, <1>6, <1>8, <1>9 DEF Next, Thread, Environment

LEMMA FailedStays ==
  ASSUME ChannelOK, [Next]_vars, SocketFailed
  PROVE  SocketFailed'
BY ChannelStep DEF SocketFailed

LEMMA PlaceStep ==
  ASSUME PlaceOK, [Next]_vars
  PROVE  PlaceOK'
<1> USE DEF PlaceOK, Place
<1>1. CASE Begin
  BY <1>1 DEF Begin
<1>2. CASE Moves \/ MovesNothing \/ MinusOne
  BY <1>2 DEF Moves, MovesNothing, MinusOne
<1>3. CASE Throws \/ EndCall
  <2>1. CASE Throws
    BY <2>1 DEF Throws, Ends, Returns
  <2>2. CASE EndCall
    BY <2>2 DEF EndCall, Returns
  <2> QED BY <1>3, <2>1, <2>2
<1>4. CASE EndMessage
  BY <1>4 DEF EndMessage, Returns
<1>5. CASE LookedInVain \/ LookedAtData
  BY <1>5 DEF LookedInVain, LookedAtData, Returns
<1>6. CASE LookedAtMessage \/ LookThrows
  BY <1>6 DEF LookedAtMessage, LookThrows, ReadRest, Ends, Returns
<1>7. CASE Wait
  <2>1. CASE WaitEnds
    BY <1>7, <2>1 DEF Wait, WaitEnds, Ends, Returns
  <2>2. CASE WaitSucceeds
    BY <1>7, <2>2 DEF Wait, WaitSucceeds, GoOn, Reading
  <2>3. CASE WaitFails
    BY <1>7, <2>3 DEF Wait, WaitFails, GoOn, Ends, Returns, Reading
  <2> QED BY <1>7, <2>1, <2>2, <2>3 DEF Wait
<1>8. CASE Environment \/ UNCHANGED vars
  BY <1>8 DEF Environment, RemoteSends, RemoteReads, Congestion, Noise, ConnectionLost, Cancel, Tick,
     vars, thread
<1> QED BY <1>1, <1>2, <1>3, <1>4, <1>5, <1>6, <1>7, <1>8 DEF Next, Thread

LEMMA CountsStep ==
  ASSUME ChannelOK, CountsOK, [Next]_vars
  PROVE  CountsOK'
<1> USE ChannelAssumption DEF CountsOK, Saved
<1>1. SocketFailed => SocketFailed'
  BY FailedStays
<1>2. CASE Begin
  BY <1>1, <1>2 DEF Begin
<1>3. CASE Moves
  BY <1>1, <1>3 DEF Moves, Offered
<1>4. CASE MinusOne
  <2>1. SocketFailed
    BY <1>4 DEF MinusOne, ReadMinusOne, WriteMinusOne, NoMore, SocketFailed
  <2> QED BY <1>1, <1>4, <2>1 DEF MinusOne
<1>5. CASE EndMessage
  BY <1>1, <1>5 DEF EndMessage
<1>6. CASE LookedAtMessage
  BY <1>1, <1>6 DEF LookedAtMessage, ReadRest
<1>7. CASE UNCHANGED <<size, bytes, saved>>
  BY <1>1, <1>7
<1>8. CASE MovesNothing \/ Throws \/ EndCall \/ LookedInVain \/ LookedAtData \/ LookThrows \/ Wait
  BY <1>7, <1>8 DEF MovesNothing, Throws, EndCall, LookedInVain, LookedAtData, LookThrows, Wait
<1>9. CASE Environment \/ UNCHANGED vars
  BY <1>7, <1>9 DEF Environment, RemoteSends, RemoteReads, Congestion, Noise, ConnectionLost, Cancel,
     Tick, vars, thread
<1> QED BY <1>2, <1>3, <1>4, <1>5, <1>6, <1>8, <1>9 DEF Next, Thread

LEMMA ClocksStep ==
  ASSUME ClocksOK, [Next]_vars
  PROVE  ClocksOK'
<1> USE ChannelAssumption DEF ClocksOK, Unset
<1>1. CASE Begin
  BY <1>1 DEF Begin
<1>2. CASE Moves \/ MinusOne
  BY <1>2 DEF Moves, MinusOne, Progress, Direction
<1>3. CASE EndMessage \/ LookedAtData \/ LookedAtMessage
  BY <1>3 DEF EndMessage, LookedAtData, LookedAtMessage, ReadRest
<1>4. CASE Wait
  BY <1>4 DEF Wait, WaitEnds, WaitSucceeds, WaitFails, CountOn, Later
<1>5. CASE Tick
  BY <1>5 DEF Tick, Later
<1>6. CASE MovesNothing \/ Throws \/ EndCall \/ LookedInVain \/ LookThrows
  BY <1>6 DEF MovesNothing, Throws, EndCall, LookedInVain, LookThrows
<1>7. CASE RemoteSends \/ RemoteReads \/ Congestion \/ Noise \/ ConnectionLost \/ Cancel
           \/ UNCHANGED vars
  BY <1>7 DEF RemoteSends, RemoteReads, Congestion, Noise, ConnectionLost, Cancel, vars, thread
<1> QED BY <1>1, <1>2, <1>3, <1>4, <1>5, <1>6, <1>7 DEF Next, Thread, Environment

(* The strengthened type invariant: with the places of the thread and the write
   behind a message it is inductive. *)
THEOREM TypeIsInvariant == Spec => []TypeInv
<1>1. TypeInv /\ [Next]_vars => TypeInv'
  BY ChannelStep, FlagsStep, PlaceStep, CountsStep, ClocksStep DEF TypeInv
<1> QED BY TypeInit, <1>1, PTL DEF Spec

(* The types, and that a count of bytes falls below zero only over a socket
   that has failed. *)
THEOREM TypeCorrect == Spec => []TypeOK
<1>1. TypeInv => TypeOK
  BY DEF TypeInv, ChannelOK, FlagsOK, PlaceOK, CountsOK, ClocksOK, TypeOK
<1> QED BY TypeIsInvariant, <1>1, PTL
-----------------------------------------------------------------------------
(* The clock that timedWait reads was never set before the last byte moved, in
   the direction of the call and, during the read of a message in the middle
   of a write, in both. *)
TimerInv ==
  /\ elapsed \in Int /\ elapsed >= Unset
  /\ still \in [{"read", "write"} -> Nat]
  /\ call # "none" /\ Reading => elapsed <= still["read"]
  /\ call = "write" => elapsed <= still["write"]

LEMMA TimerInit == Init => TimerInv
BY DEF Init, TimerInv, Unset, Reading

LEMMA TimerStep == PlaceOK /\ TimerInv /\ [Next]_vars => TimerInv'
<1> SUFFICES ASSUME PlaceOK, TimerInv, [Next]_vars PROVE TimerInv'
  OBVIOUS
<1> USE DEF TimerInv, Unset
<1>1. CASE Begin
  BY <1>1 DEF Begin, Reading
<1>2. CASE Moves
  <2>1. call' = call /\ inner' = inner /\ elapsed' = Unset
    BY <1>2 DEF Moves, Progress
  <2>2. still' \in [{"read", "write"} -> Nat]
    BY <1>2 DEF Moves, Progress
  <2> QED BY <2>1, <2>2 DEF Reading
<1>3. CASE MovesNothing
  BY <1>3 DEF MovesNothing, Reading
<1>4. CASE MinusOne
  BY <1>4 DEF MinusOne, Reading
<1>5. CASE Throws
  BY <1>5 DEF Throws, Ends, Returns, Reading
<1>6. CASE EndMessage
  BY <1>6 DEF EndMessage, Returns, Reading
<1>7. CASE EndCall
  BY <1>7 DEF EndCall, Returns, Reading
<1>8. CASE LookedInVain
  BY <1>8 DEF LookedInVain, Reading
<1>9. CASE LookedAtData
  <2>1. still' \in [{"read", "write"} -> Nat] /\ still'["write"] = still["write"]
    BY <1>9 DEF LookedAtData
  <2>2. CASE call = "message"
    BY <1>9, <2>1, <2>2 DEF LookedAtData, Returns, Reading
  <2>3. CASE call = "write" /\ ~inner
    BY <1>9, <2>1, <2>3 DEF LookedAtData, Reading
  <2>4. call = "message" \/ (call = "write" /\ ~inner)
    BY <1>9 DEF LookedAtData, PlaceOK, Place
  <2> QED BY <2>2, <2>3, <2>4
<1>10. CASE LookedAtMessage
  BY <1>10 DEF LookedAtMessage, ReadRest, Reading
<1>11. CASE LookThrows
  BY <1>11 DEF LookThrows, Ends, Returns, Reading
<1>12. CASE Wait
  <2>1. CASE WaitEnds
    BY <2>1 DEF WaitEnds, Ends, Returns, Reading
  <2>2. CASE WaitSucceeds
    BY <2>2 DEF WaitSucceeds, Reading
  <2>3. CASE WaitFails
    <3>1. still' \in [{"read", "write"} -> Nat]
      BY <2>3, ChannelAssumption DEF WaitFails, Later
    <3>2. elapsed' \in Int /\ elapsed' >= -1
      BY <2>3, ChannelAssumption DEF WaitFails, CountOn, Later
    <3>3. (call = call' /\ inner' = inner) \/ call' = "none"
      BY <2>3 DEF WaitFails, Ends, Returns
    <3>4. ASSUME NEW d \in {"read", "write"}, elapsed <= still[d]
          PROVE  elapsed' <= still'[d]
      BY <2>3, <3>4, ChannelAssumption DEF WaitFails, CountOn, Later
    <3> QED BY <3>1, <3>2, <3>3, <3>4 DEF Reading
  <2> QED BY <1>12, <2>1, <2>2, <2>3 DEF Wait
<1>13. CASE Tick
  <2>1. still' \in [{"read", "write"} -> Nat] /\ elapsed' \in Int /\ elapsed' >= -1
    BY <1>13, ChannelAssumption DEF Tick, Later
  <2>2. ASSUME NEW d \in {"read", "write"}, elapsed <= still[d]
        PROVE  elapsed' <= still'[d]
    BY <1>13, <2>2, ChannelAssumption DEF Tick, Later
  <2> QED BY <1>13, <2>1, <2>2 DEF Tick, Reading
<1>14. CASE RemoteSends \/ RemoteReads \/ Congestion \/ Noise \/ ConnectionLost \/ Cancel
  BY <1>14 DEF RemoteSends, RemoteReads, Congestion, Noise, ConnectionLost, Cancel, thread, Reading
<1>15. CASE UNCHANGED vars
  BY <1>15 DEF vars, thread, Reading
<1> QED
  BY <1>1, <1>2, <1>3, <1>4, <1>5, <1>6, <1>7, <1>8, <1>9, <1>10, <1>11, <1>12, <1>13, <1>14,
     <1>15 DEF Next, Thread, Environment

(* The clock is never older than the last byte that moved. *)
THEOREM TimerIsInvariant == Spec => []TimerInv
<1>1. TypeInv => PlaceOK
  BY DEF TypeInv
<1> QED BY TypeIsInvariant, TimerInit, TimerStep, <1>1, PTL DEF Spec

(* No call times out unless no byte has moved in its direction for more than
   the timeout. *)
THEOREM TimeoutIsLate == Spec => TimesOutLate
<1>1. ASSUME PlaceOK, TimerInv, [Next]_vars, ending' = "timeout", ending = "none"
      PROVE  still'[Direction] > MaxTimeout
  <2>1. WaitFails /\ pc = "wait" /\ elapsed' > MaxTimeout
    <3>1. CASE Wait
      BY <1>1, <3>1 DEF Wait, WaitEnds, WaitSucceeds, WaitFails, Ends
    <3>2. CASE ~Wait
      BY <1>1, <3>2 DEF Next, Begin, Thread, Moves, MovesNothing, MinusOne, Throws, EndMessage, EndCall,
         LookedInVain, LookedAtData, LookedAtMessage, LookThrows, Ends, Environment, RemoteSends,
         RemoteReads, Congestion, Noise, ConnectionLost, Cancel, Tick, vars, thread
    <3> QED BY <3>1, <3>2
  <2>2. Direction \in {"read", "write"} /\ elapsed <= still[Direction]
    BY <1>1, <2>1 DEF PlaceOK, Place, TimerInv, Direction, Reading
  <2>3. still'[Direction] = Later(still[Direction]) /\ elapsed' = CountOn
    BY <2>1, <2>2 DEF WaitFails
  <2>4. CountOn <= Later(still[Direction])
    BY <1>1, <2>2, ChannelAssumption DEF CountOn, Later, TimerInv, Unset
  <2>5. Later(still[Direction]) \in Int /\ CountOn \in Int
    BY <1>1, <2>2, ChannelAssumption DEF CountOn, Later, TimerInv, Unset
  <2> QED BY <2>1, <2>3, <2>4, <2>5, ChannelAssumption
<1>2. TypeInv => PlaceOK
  BY DEF TypeInv
<1>3. PlaceOK /\ TimerInv /\ [Next]_vars
        => [ending' = "timeout" /\ ending = "none" => still'[Direction] > MaxTimeout]_vars
  BY <1>1
<1> QED BY TypeIsInvariant, TimerIsInvariant, <1>2, <1>3, PTL DEF Spec, TimesOutLate
=============================================================================
