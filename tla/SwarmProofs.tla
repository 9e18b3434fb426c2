---------------------------- MODULE SwarmProofs ----------------------------
(***************************************************************************)
(* Theorems about Swarm, for every set of peers, pieces and workers, every *)
(* window and every number of blocks.  TypeCorrect, BufferSafe and         *)
(* InsidePieces hold for every choice of Events; the others need Calm.     *)
(***************************************************************************)
EXTENDS Swarm, FiniteSetTheorems, TLAPS

-----------------------------------------------------------------------------
(* Sequences. *)

LEMMA TailProps ==
    ASSUME NEW S, NEW s \in Seq(S), s # <<>>
    PROVE  /\ Tail(s) \in Seq(S) /\ Head(s) \in S
           /\ Len(Tail(s)) = Len(s) - 1 /\ Len(s) > 0 /\ Head(s) = s[1]
           /\ \A n \in 1 .. Len(Tail(s)) : Tail(s)[n] = s[n + 1]
  OBVIOUS

LEMMA AppendProps ==
    ASSUME NEW S, NEW s \in Seq(S), NEW x \in S
    PROVE  /\ Append(s, x) \in Seq(S)
           /\ Len(Append(s, x)) = Len(s) + 1
           /\ \A n \in 1 .. Len(s) : Append(s, x)[n] = s[n]
           /\ Append(s, x)[Len(s) + 1] = x
  OBVIOUS

LEMMA UpdateType ==
    ASSUME NEW S, NEW s \in Seq(S), NEW k \in 1 .. Len(s), NEW x \in S
    PROVE  [s EXCEPT ![k] = x] \in Seq(S) /\ [s EXCEPT ![k] = x] # <<>>
  <1>1. [s EXCEPT ![k] = x] \in Seq(S) /\ Len([s EXCEPT ![k] = x]) = Len(s)
    OBVIOUS
  <1>2. Len(s) # 0 /\ Len(<<>>) = 0
    OBVIOUS
  <1>3. QED
    BY <1>1, <1>2

LEMMA HandlerTypes ==
    /\ \A k \in SignalKinds, i \in Content : Post(k, i) \in Handler
    /\ \A k \in PieceKinds, i \in Pieces : Post(k, i) \in Handler
    /\ \A k \in SignalKinds : Signal(k) \in Handler
    /\ \A i \in Pieces, b \in Nat, g \in BOOLEAN : PieceMsg(i, b, g) \in Handler
    /\ \A h \in Handler : h.kind \in PieceKinds => h.piece \in Pieces
    /\ \A h \in Handler : h.kind \in PieceKinds => [h EXCEPT !.kind = "Block"] \in Handler
  BY DEF Post, Signal, PieceMsg, Handler, Content, PieceKinds, SignalKinds

LEMMA PostReadType ==
    ASSUME NEW p, NEW s \in Seq(Handler)
    PROVE  PostRead(p, s) \in Seq(Handler)
  <1>1. Signal("Read") \in Handler
    BY HandlerTypes DEF SignalKinds
  <1>2. QED
    BY <1>1, AppendProps DEF PostRead

LEMMA PostToAllType ==
    ASSUME NEW ss \in [Peers -> Seq(Handler)], NEW h \in Handler
    PROVE  PostToAll(ss, h) \in [Peers -> Seq(Handler)]
  <1>1. \A q \in Peers : Append(ss[q], h) \in Seq(Handler)
    BY AppendProps
  <1>2. QED
    BY <1>1 DEF PostToAll

-----------------------------------------------------------------------------
(* Type correctness. *)


LEMMA BusyTypes ==
    /\ Idle \in BusySet
    /\ \A r \in BOOLEAN : CallTry(r) \in BusySet
    /\ \A m \in Handler, r \in BOOLEAN :
          /\ m.piece \in Pieces => Rest("chosen", m, r) \in BusySet
          /\ m.kind = "piece" => Rest("checked", m, r) \in BusySet
  <1>1. Signal("Read") \in Handler
    BY HandlerTypes DEF SignalKinds
  <1>2. QED
    BY <1>1 DEF Idle, CallTry, Rest, BusySet

LEMMA BusyFields ==
    ASSUME NEW r \in BusySet
    PROVE  /\ r.at \in {"idle", "try", "chosen", "checked"} /\ r.msg \in Handler /\ r.reads \in BOOLEAN
           /\ r.at = "chosen" => r.msg.piece \in Pieces
           /\ r.at = "checked" => r.msg.kind = "piece"
  BY DEF BusySet

LEMMA InitType == Init => TypeOK
  <1> SUFFICES ASSUME Init PROVE TypeOK
    OBVIOUS
  <1>1. MasterType
    BY DEF Init, MasterType, Content
  <1>2. WorkerType
    BY DEF Init, WorkerType, Content
  <1>3. StatusType
    BY DEF Init, StatusType
  <1>4. PieceType
    <2>1. NoActive \in ActiveSet
      BY DEF NoActive, ActiveSet, Content
    <2>2. QED
      BY <2>1 DEF Init, PieceType
  <1>5. StrandType
    BY BusyTypes DEF Init, StrandType
  <1>6. QED
    BY <1>1, <1>2, <1>3, <1>4, <1>5 DEF TypeOK, Init

\* An action leaves alone the types of the groups of variables it leaves alone.
LEMMA Unchanged ==
    /\ MasterType /\ UNCHANGED masterVars => MasterType'
    /\ WorkerType /\ UNCHANGED workerVars => WorkerType'
    /\ StatusType /\ UNCHANGED statusVars => StatusType'
    /\ PieceType /\ UNCHANGED pieceVars => PieceType'
    /\ StrandType /\ UNCHANGED strandVars => StrandType'
  <1>1. MasterType /\ UNCHANGED masterVars => MasterType'
    BY DEF MasterType, masterVars
  <1>2. WorkerType /\ UNCHANGED workerVars => WorkerType'
    BY DEF WorkerType, workerVars
  <1>3. StatusType /\ UNCHANGED statusVars => StatusType'
    BY DEF StatusType, statusVars
  <1>4. PieceType /\ UNCHANGED pieceVars => PieceType'
    BY DEF PieceType, pieceVars
  <1>5. StrandType /\ UNCHANGED strandVars => StrandType'
    BY DEF StrandType, strandVars
  <1>6. QED
    BY <1>1, <1>2, <1>3, <1>4, <1>5

\* What a handler that starts to run finds.
LEMMA RunsFacts ==
    ASSUME TypeOK, NEW p \in Peers, NEW k, Runs(p, k)
    PROVE  /\ busy[p] = Idle /\ strand[p] \in Seq(Handler) /\ strand[p] # <<>>
           /\ Head(strand[p]) \in Handler /\ Head(strand[p]).kind = k
           /\ Tail(strand[p]) \in Seq(Handler)
           /\ PostRead(p, Tail(strand[p])) \in Seq(Handler)
           /\ \A h \in Handler : /\ Append(Tail(strand[p]), h) \in Seq(Handler)
                                 /\ PostRead(p, Append(Tail(strand[p]), h)) \in Seq(Handler)
  <1>1. strand[p] \in Seq(Handler) /\ strand[p] # <<>>
    BY DEF TypeOK, StrandType, Runs
  <1>2. Tail(strand[p]) \in Seq(Handler) /\ Head(strand[p]) \in Handler
    BY <1>1, TailProps
  <1>3. \A h \in Handler : Append(Tail(strand[p]), h) \in Seq(Handler)
    BY <1>2, AppendProps
  <1>4. QED
    BY <1>1, <1>2, <1>3, PostReadType DEF Runs

\* Every step of a strand replaces its queue and the rest of its handler.
LEMMA StrandStep ==
    ASSUME StrandType, NEW p \in Peers, NEW s \in Seq(Handler), NEW r \in BusySet, NEW b \in BOOLEAN,
           strand' = [strand EXCEPT ![p] = s],
           busy' = [busy EXCEPT ![p] = r],
           reading' = [reading EXCEPT ![p] = b]
    PROVE  StrandType'
  BY DEF StrandType

LEMMA AccessType == ASSUME TypeOK, NEW p \in Peers, Access(p) PROVE TypeOK'
  <1>1. Append(strand[p], Signal("Read")) \in Seq(Handler)
    BY HandlerTypes, AppendProps DEF SignalKinds, TypeOK, StrandType
  <1>2. StrandType'
    BY <1>1 DEF Access, TypeOK, StrandType
  <1>3. StatusType'
    BY DEF Access, TypeOK, StatusType
  <1>4. QED
    BY <1>2, <1>3, Unchanged DEF Access, TypeOK

LEMMA DeliverType == ASSUME TypeOK, NEW p \in Peers, NEW m \in Handler, Deliver(p, m) PROVE TypeOK'
  <1>1. Append(strand[p], m) \in Seq(Handler)
    BY AppendProps DEF TypeOK, StrandType
  <1>2. StrandType'
    BY <1>1 DEF Deliver, TypeOK, StrandType
  <1>3. PieceType'
    BY DEF Deliver, TypeOK, PieceType
  <1>4. QED
    BY <1>2, <1>3, Unchanged DEF Deliver, TypeOK

LEMMA RemoteType == ASSUME TypeOK, NEW p \in Peers, RemoteServes(p) \/ RemoteDisturbs(p) PROVE TypeOK'
  <1>1. /\ Signal("bitfield") \in Handler /\ Signal("unchoke") \in Handler
        /\ Signal("interested") \in Handler /\ Signal("choke") \in Handler
    BY HandlerTypes DEF SignalKinds
  <1>2. \A r \in Answerable(p) : \A g \in BOOLEAN : PieceMsg(r[1], r[2], g) \in Handler
    BY HandlerTypes DEF Answerable, TypeOK, PieceType
  <1>3. \A i \in RemoteHas[p] : Post("have", i) \in Handler
    BY HandlerTypes, RemoteHasAssumption DEF PieceKinds
  <1>4. CASE RemoteServes(p)
    BY <1>1, <1>2, <1>4, DeliverType DEF RemoteServes
  <1>5. CASE RemoteDisturbs(p)
    BY <1>1, <1>2, <1>3, <1>5, DeliverType DEF RemoteDisturbs
  <1>6. QED
    BY <1>4, <1>5

LEMMA TimersType ==
    ASSUME TypeOK, NEW p \in Peers, PieceTimerFires(p) \/ KeepAliveTimerFires(p) \/ Disconnect(p)
    PROVE  TypeOK'
  <1>1. /\ Append(strand[p], Signal("Expired")) \in Seq(Handler)
        /\ Append(strand[p], Signal("KeepAlive")) \in Seq(Handler)
    BY HandlerTypes, AppendProps DEF SignalKinds, TypeOK, StrandType
  <1>2. CASE PieceTimerFires(p)
    <2>1. StrandType' /\ PieceType'
      BY <1>1, <1>2 DEF PieceTimerFires, TypeOK, StrandType, PieceType
    <2>2. QED
      BY <1>2, <2>1, Unchanged DEF PieceTimerFires, TypeOK
  <1>3. CASE KeepAliveTimerFires(p)
    <2>1. StrandType'
      BY <1>1, <1>3 DEF KeepAliveTimerFires, TypeOK, StrandType
    <2>2. QED
      BY <1>3, <2>1, Unchanged DEF KeepAliveTimerFires, TypeOK
  <1>4. CASE Disconnect(p)
    <2>1. StrandType'
      BY <1>4 DEF Disconnect, TypeOK, StrandType
    <2>2. PieceType' /\ StatusType'
      BY <1>4 DEF Disconnect, TypeOK, PieceType, StatusType
    <2>3. QED
      BY <1>4, <2>1, <2>2, Unchanged DEF Disconnect, TypeOK
  <1>5. QED
    BY <1>2, <1>3, <1>4

LEMMA EnvironmentType == ASSUME TypeOK, NEW p \in Peers, Environment(p) PROVE TypeOK'
  BY AccessType, RemoteType, TimersType DEF Environment

LEMMA HandleResponseType == ASSUME TypeOK, NEW p \in Peers, HandleResponse(p) PROVE TypeOK'
  <1> USE DEF TypeOK
  <1>b. CallTry(TRUE) \in BusySet /\ Idle \in BusySet
    BY BusyTypes
  <1>1. CASE HandleChoke(p)
    <2>1. Signal("Choked") \in Handler
      BY HandlerTypes DEF SignalKinds
    <2>2. PostRead(p, Append(Tail(strand[p]), Signal("Choked"))) \in Seq(Handler)
      BY <1>1, <2>1, RunsFacts DEF HandleChoke
    <2>3. StrandType'
      BY <1>1, <2>2 DEF HandleChoke, StrandType
    <2>4. StatusType' /\ PieceType'
      BY <1>1 DEF HandleChoke, StatusType, PieceType
    <2>5. QED
      BY <1>1, <2>3, <2>4, Unchanged DEF HandleChoke
  <1>2. CASE HandleUnchoke(p)
    <2>0. Tail(strand[p]) \in Seq(Handler) /\ PostRead(p, Tail(strand[p])) \in Seq(Handler)
      BY <1>2, RunsFacts DEF HandleUnchoke
    <2>1. StrandType'
      BY <1>2, <1>b, <2>0 DEF HandleUnchoke, StrandType
    <2>2. StatusType'
      BY <1>2 DEF HandleUnchoke, StatusType
    <2>3. QED
      BY <1>2, <2>1, <2>2, Unchanged DEF HandleUnchoke
  <1>3. CASE HandleInterested(p)
    <2>0. Tail(strand[p]) \in Seq(Handler) /\ PostRead(p, Tail(strand[p])) \in Seq(Handler)
      BY <1>3, RunsFacts DEF HandleInterested
    <2>1. StrandType'
      BY <1>3, <1>b, <2>0 DEF HandleInterested, StrandType
    <2>2. QED
      BY <1>3, <2>1, Unchanged DEF HandleInterested
  <1>4. CASE HandleHave(p)
    <2>1. Head(strand[p]).piece \in Pieces
      BY <1>4, RunsFacts, HandlerTypes DEF HandleHave, PieceKinds
    <2>2. Tail(strand[p]) \in Seq(Handler) /\ PostRead(p, Tail(strand[p])) \in Seq(Handler)
      BY <1>4, RunsFacts DEF HandleHave
    <2>3. StrandType'
      BY <1>4, <1>b, <2>2 DEF HandleHave, StrandType
    <2>4. StatusType'
      BY <1>4, <2>1 DEF HandleHave, StatusType
    <2>5. QED
      BY <1>4, <2>3, <2>4, Unchanged DEF HandleHave
  <1>5. CASE HandleBitfield(p)
    <2>0. Tail(strand[p]) \in Seq(Handler) /\ PostRead(p, Tail(strand[p])) \in Seq(Handler)
      BY <1>5, RunsFacts DEF HandleBitfield
    <2>1. StrandType'
      BY <1>5, <1>b, <2>0 DEF HandleBitfield, StrandType
    <2>2. StatusType'
      BY <1>5, RemoteHasAssumption DEF HandleBitfield, StatusType
    <2>3. QED
      BY <1>5, <2>1, <2>2, Unchanged DEF HandleBitfield
  <1>6. CASE HandlePiece(p)
    <2> DEFINE m == Head(strand[p])
    <2>1. m \in Handler /\ m.kind = "piece" /\ m.piece \in Pieces
      BY <1>6, RunsFacts, HandlerTypes DEF HandlePiece, PieceKinds
    <2>2. Post("Cancel", m.piece) \in Handler
      BY <2>1, HandlerTypes DEF PieceKinds
    <2>3. Rest("checked", m, TRUE) \in BusySet
      BY <2>1, BusyTypes
    <2>4. StrandType'
      <3>1. PICK s \in Seq(Handler), r \in BusySet :
                /\ strand' = [strand EXCEPT ![p] = s]
                /\ busy' = [busy EXCEPT ![p] = r]
        <4>1. busy = [busy EXCEPT ![p] = busy[p]] /\ busy[p] \in BusySet
          BY DEF StrandType
        <4>2. Runs(p, "piece")
          BY <1>6 DEF HandlePiece
        <4>3. /\ Tail(strand[p]) \in Seq(Handler)
              /\ PostRead(p, Tail(strand[p])) \in Seq(Handler)
              /\ PostRead(p, Append(Tail(strand[p]), Post("Cancel", m.piece))) \in Seq(Handler)
          BY <2>2, <4>2, RunsFacts
        <4>4. QED
          BY <1>6, <2>3, <4>1, <4>3 DEF HandlePiece
      <3>2. QED
        BY <1>6, <3>1 DEF HandlePiece, StrandType
    <2>5. PieceType'
      BY <1>6 DEF HandlePiece, PieceType
    <2>6. QED
      BY <1>6, <2>4, <2>5, Unchanged DEF HandlePiece
  <1>7. CASE PostBlock(p)
    <2>1. busy[p].msg \in Handler /\ busy[p].msg.kind = "piece"
      BY <1>7, BusyFields DEF PostBlock, StrandType
    <2>2. [busy[p].msg EXCEPT !.kind = "Block"] \in Handler
      BY <2>1, HandlerTypes DEF PieceKinds
    <2>3. PostRead(p, Append(strand[p], [busy[p].msg EXCEPT !.kind = "Block"])) \in Seq(Handler)
      BY <2>2, AppendProps, PostReadType DEF StrandType
    <2>4. StrandType'
      BY <1>7, <1>b, <2>3 DEF PostBlock, StrandType
    <2>5. QED
      BY <1>7, <2>4, Unchanged DEF PostBlock
  <1>8. QED
    BY <1>1, <1>2, <1>3, <1>4, <1>5, <1>6, <1>7 DEF HandleResponse

\* RunBlock is the one handler that changes the active piece and the job queue.
LEMMA RunBlockType == ASSUME TypeOK, NEW p \in Peers, RunBlock(p) PROVE TypeOK'
  <1> USE DEF TypeOK
  <1> DEFINE h == Head(strand[p])
             a == active[p]
             stored == [a EXCEPT !.count = @ + 1,
                                 !.blocks = [@ EXCEPT ![h.block + 1] = IF h.good THEN h.piece ELSE NoPiece]]
  <1>1. h \in Handler /\ h.kind = "Block" /\ h.piece \in Pieces /\ h.block \in Nat
    BY RunsFacts, HandlerTypes DEF RunBlock, PieceKinds, Handler
  <1>2. a \in ActiveSet
    BY DEF PieceType
  <1>3. Tail(strand[p]) \in Seq(Handler) /\ Append(Tail(strand[p]), Signal("Clear")) \in Seq(Handler)
    BY RunsFacts, HandlerTypes DEF RunBlock, SignalKinds
  <1>4. CallTry(FALSE) \in BusySet
    BY BusyTypes
  <1>5. CASE a.piece = NoPiece \/ h.block >= Len(a.blocks)
    <2>1. StrandType'
      BY <1>3, <1>5 DEF RunBlock, StrandType
    <2>2. UNCHANGED pieceVars /\ UNCHANGED workerVars /\ crashed' = TRUE
      BY <1>5 DEF RunBlock, pieceVars, workerVars
    <2>3. QED
      BY <2>1, <2>2, Unchanged DEF RunBlock
  <1>6. CASE ~(a.piece = NoPiece \/ h.block >= Len(a.blocks))
    <2>1. a.piece \in Pieces
      BY <1>2, <1>6 DEF ActiveSet, Content
    <2>2. h.block + 1 \in 1 .. Len(a.blocks) /\ a.blocks \in Seq(Content)
      BY <1>1, <1>2, <1>6 DEF ActiveSet
    <2> DEFINE bs == [a.blocks EXCEPT ![h.block + 1] = IF h.good THEN h.piece ELSE NoPiece]
    <2>3. bs \in Seq(Content) /\ bs # <<>>
      BY <1>1, <2>2, UpdateType DEF Content
    <2>4. stored \in ActiveSet
      <3>1. stored = [a EXCEPT !.count = @ + 1, !.blocks = bs]
        OBVIOUS
      <3>3. bs \in Seq(Content)
        BY <2>3
      <3> HIDE DEF bs
      <3>2. a.piece \in Content /\ a.begin \in Nat /\ a.count + 1 \in Nat
        BY <1>2 DEF ActiveSet
      <3>4. [a EXCEPT !.count = @ + 1, !.blocks = bs] \in ActiveSet
        BY <1>2, <3>2, <3>3 DEF ActiveSet
      <3>5. QED
        BY <3>1, <3>4
    <2>5. active' = [active EXCEPT ![p] = stored] /\ crashed' = crashed
      BY <1>6 DEF RunBlock
    <2>6. PieceType'
      BY <2>4, <2>5 DEF RunBlock, PieceType
    <2>7. [index |-> h.piece, piece |-> a.piece, blocks |-> stored.blocks] \in JobSet
      <3>1. stored.blocks = bs
        BY <1>2 DEF ActiveSet
      <3> HIDE DEF bs, stored
      <3>2. QED
        BY <1>1, <2>1, <2>3, <3>1 DEF JobSet
    <2>8. WorkerType'
      <3>1. Append(jobs, [index |-> h.piece, piece |-> a.piece, blocks |-> stored.blocks]) \in Seq(JobSet)
        BY <2>7, AppendProps DEF WorkerType
      <3>2. jobs' \in Seq(JobSet)
        BY <1>6, <3>1 DEF RunBlock, WorkerType
      <3>3. QED
        BY <3>2 DEF RunBlock, WorkerType
    <2>9. StrandType'
      BY <1>3, <1>4, <1>6 DEF RunBlock, StrandType
    <2>10. QED
      BY <2>5, <2>6, <2>8, <2>9, Unchanged DEF RunBlock
  <1>7. QED
    BY <1>5, <1>6

LEMMA RunHandlerType == ASSUME TypeOK, NEW p \in Peers, RunHandler(p) PROVE TypeOK'
  <1> USE DEF TypeOK
  <1>b. CallTry(FALSE) \in BusySet /\ Idle \in BusySet
    BY BusyTypes
  <1>n. NoActive \in ActiveSet
    BY DEF NoActive, ActiveSet, Content
  <1>a. active[p] \in ActiveSet
    BY DEF PieceType
  <1>1. CASE RunRead(p)
    <2>1. StrandType'
      BY <1>1, RunsFacts DEF RunRead, StrandType
    <2>2. QED
      BY <1>1, <2>1, Unchanged DEF RunRead
  <1>2. CASE RunChoked(p)
    <2>1. StrandType'
      BY <1>2, RunsFacts DEF RunChoked, StrandType
    <2>2. PieceType' /\ MasterType'
      BY <1>2, <1>n DEF RunChoked, PieceType, MasterType
    <2>3. QED
      BY <1>2, <2>1, <2>2, Unchanged DEF RunChoked
  <1>3. CASE RunClear(p)
    <2>1. StrandType'
      BY <1>3, <1>b, RunsFacts DEF RunClear, StrandType
    <2>2. PieceType'
      BY <1>3, <1>n DEF RunClear, PieceType
    <2>3. QED
      BY <1>3, <2>1, <2>2, Unchanged DEF RunClear
  <1>4. CASE RunTry(p)
    <2>1. StrandType'
      BY <1>4, <1>b, RunsFacts DEF RunTry, StrandType
    <2>2. QED
      BY <1>4, <2>1, Unchanged DEF RunTry
  <1>5. CASE RunCancelCheck(p)
    <2>1. Post("Cancel", Head(strand[p]).piece) \in Handler
      <3>1. Head(strand[p]) \in Handler /\ Head(strand[p]).kind = "CancelCheck"
        BY <1>5, RunsFacts DEF RunCancelCheck
      <3>2. "CancelCheck" \in PieceKinds /\ "Cancel" \in PieceKinds
        BY DEF PieceKinds
      <3>3. Head(strand[p]).piece \in Pieces
        BY <3>1, <3>2, HandlerTypes
      <3>4. QED
        BY <3>2, <3>3, HandlerTypes
    <2>2. StrandType'
      <3>1. /\ Tail(strand[p]) \in Seq(Handler)
            /\ Append(Tail(strand[p]), Post("Cancel", Head(strand[p]).piece)) \in Seq(Handler)
        BY <1>5, <2>1, RunsFacts DEF RunCancelCheck
      <3>2. QED
        BY <1>5, <1>b, <3>1 DEF RunCancelCheck, StrandType
    <2>3. QED
      BY <1>5, <2>2, Unchanged DEF RunCancelCheck
  <1>6. CASE RunCancel(p)
    <2>1. StrandType'
      BY <1>6, RunsFacts DEF RunCancel, StrandType
    <2>2. PieceType'
      BY <1>6, <1>a, <1>n DEF RunCancel, PieceType
    <2>3. QED
      BY <1>6, <2>1, <2>2, Unchanged DEF RunCancel
  <1>7. CASE RunExpired(p)
    <2>1. Signal("Timeout") \in Handler
      BY HandlerTypes DEF SignalKinds
    <2>2. StrandType'
      BY <1>7, <2>1, RunsFacts DEF RunExpired, StrandType
    <2>3. QED
      BY <1>7, <2>2, Unchanged DEF RunExpired
  <1>8. CASE RunTimeout(p)
    <2> DEFINE i == active[p].piece
               popped == [strand EXCEPT ![p] = Tail(@)]
               woken == PostToAll(popped, Signal("Try"))
    <2>1. Tail(strand[p]) \in Seq(Handler)
      BY <1>8, RunsFacts DEF RunTimeout
    <2>2. popped \in [Peers -> Seq(Handler)]
      BY <2>1 DEF StrandType
    <2>3. woken \in [Peers -> Seq(Handler)]
      BY <2>2, PostToAllType, HandlerTypes DEF SignalKinds
    <2>4. i # NoPiece => Post("Cancel", i) \in Handler
      BY <1>a, HandlerTypes DEF ActiveSet, Content, PieceKinds
    <2>5. i # NoPiece => [woken EXCEPT ![p] = Append(@, Post("Cancel", i))] \in [Peers -> Seq(Handler)]
      BY <2>3, <2>4, AppendProps
    <2>6. strand' \in [Peers -> Seq(Handler)]
      BY <1>8, <2>2, <2>3, <2>5 DEF RunTimeout
    <2>7. StrandType'
      BY <1>8, <2>6 DEF RunTimeout, StrandType
    <2>8. MasterType'
      BY <1>8 DEF RunTimeout, MasterType
    <2>9. QED
      BY <1>8, <2>7, <2>8, Unchanged DEF RunTimeout
  <1>9. CASE RunKeepAlive(p)
    <2>1. StrandType'
      BY <1>9, <1>b, RunsFacts DEF RunKeepAlive, StrandType
    <2>2. QED
      BY <1>9, <2>1, Unchanged DEF RunKeepAlive
  <1>10. QED
    BY <1>1, <1>2, <1>3, <1>4, <1>5, <1>6, <1>7, <1>8, <1>9, RunBlockType DEF RunHandler

\* The requests of one call, and what they leave the active piece like.
LEMMA RequestTypes ==
    ASSUME NEW a \in ActiveSet, a.piece \in Pieces
    PROVE  /\ RequestsSent(BlockCount[a.piece]) \in Nat
           /\ SendRequests(a) \in ActiveSet
           /\ RequestSet(a) \in SUBSET (Pieces \X Nat)
  <1>1. RequestsSent(BlockCount[a.piece]) \in Nat
    BY BlockCountAssumption, WindowAssumption DEF RequestsSent
  <1>2. a.begin \in Nat
    BY DEF ActiveSet
  <1>3. SendRequests(a) \in ActiveSet
    BY <1>1, <1>2 DEF SendRequests, ActiveSet
  <1>4. \A b \in a.begin .. (a.begin + RequestsSent(BlockCount[a.piece]) - 1) : b \in Nat
    BY <1>1, <1>2
  <1>5. QED
    BY <1>1, <1>3, <1>4 DEF RequestSet

LEMMA FreshType == \A i \in Pieces : Fresh(i) \in ActiveSet /\ Fresh(i).piece = i
  <1> TAKE i \in Pieces
  <1>1. [slot \in 1 .. BlockCount[i] |-> NoPiece] \in Seq(Content)
    BY BlockCountAssumption DEF Content
  <1>2. QED
    BY <1>1 DEF Fresh, ActiveSet, Content

LEMMA ReturnType == ASSUME TypeOK, NEW p \in Peers, Return(p), reading' = reading PROVE StrandType'
  <1>1. strand[p] \in Seq(Handler) /\ PostRead(p, strand[p]) \in Seq(Handler)
    BY PostReadType DEF TypeOK, StrandType
  <1>2. QED
    BY <1>1, BusyTypes DEF Return, TypeOK, StrandType

LEMMA TryType == ASSUME TypeOK, NEW p \in Peers, TryToRequestPiece(p) PROVE TypeOK'
  <1> USE DEF TypeOK
  <1>a. active[p] \in ActiveSet /\ busy[p] \in BusySet
    BY DEF PieceType, StrandType
  <1>1. CASE TryNothing(p)
    <2>1. StatusType'
      BY <1>1 DEF TryNothing, StatusType
    <2>2. QED
      BY <1>1, <2>1, ReturnType, Unchanged DEF TryNothing
  <1>2. CASE TryChoose(p)
    <2>1. PICK i \in Candidates(p) :
              busy' = [busy EXCEPT ![p] = Rest("chosen", Post("Try", i), @.reads)]
      BY <1>2 DEF TryChoose
    <2>2. i \in Pieces
      BY DEF Candidates, StatusType
    <2>3. Post("Try", i) \in Handler /\ Post("Try", i).piece = i
      BY <2>2, HandlerTypes DEF PieceKinds, SignalKinds, Content, Post
    <2>4. Rest("chosen", Post("Try", i), busy[p].reads) \in BusySet
      BY <1>a, <2>2, <2>3, BusyTypes, BusyFields
    <2>5. StrandType'
      BY <1>2, <2>1, <2>4 DEF TryChoose, StrandType
    <2>6. StatusType'
      BY <1>2 DEF TryChoose, StatusType
    <2>7. QED
      BY <1>2, <2>5, <2>6, Unchanged DEF TryChoose
  <1>3. CASE TryRequest(p)
    <2> DEFINE i == busy[p].msg.piece
    <2>1. i \in Pieces
      BY <1>3, <1>a, BusyFields DEF TryRequest
    <2>2. SendRequests(Fresh(i)) \in ActiveSet /\ RequestSet(Fresh(i)) \in SUBSET (Pieces \X Nat)
      BY <2>1, FreshType, RequestTypes
    <2>3. PieceType'
      BY <1>3, <2>2 DEF TryRequest, Transmit, PieceType
    <2>4. MasterType'
      BY <1>3, <2>1 DEF TryRequest, MasterType
    <2>5. QED
      BY <1>3, <2>3, <2>4, ReturnType, Unchanged DEF TryRequest
  <1>4. CASE TryContinue(p)
    <2> DEFINE a == active[p]
    <2>1. a.piece \in Pieces
      BY <1>4, <1>a DEF TryContinue, ActiveSet, Content
    <2>2. SendRequests(a) \in ActiveSet /\ RequestSet(a) \in SUBSET (Pieces \X Nat)
      BY <1>a, <2>1, RequestTypes
    <2>3. PieceType'
      <3>1. CASE AllAsked(a)
        BY <1>4, <3>1, Unchanged DEF TryContinue
      <3>2. CASE ~AllAsked(a)
        <4>1. /\ active' = [active EXCEPT ![p] = SendRequests(a)]
              /\ Transmit(p, RequestSet(a))
              /\ timer' = [timer EXCEPT ![p] = TRUE]
          BY <1>4, <3>2 DEF TryContinue
        <4>2. QED
          BY <2>2, <4>1 DEF Transmit, PieceType
      <3>3. QED
        BY <3>1, <3>2
    <2>4. QED
      BY <1>4, <2>3, ReturnType, Unchanged DEF TryContinue
  <1>5. QED
    BY <1>1, <1>2, <1>3, <1>4 DEF TryToRequestPiece

LEMMA DownloadPieceType == ASSUME TypeOK, NEW w \in Workers, DownloadPiece(w) PROVE TypeOK'
  <1> USE DEF TypeOK
  <1>1. CASE VerifyAndWrite(w)
    <2> DEFINE j == Head(jobs)
    <2>1. j \in JobSet /\ Tail(jobs) \in Seq(JobSet)
      BY <1>1, TailProps DEF VerifyAndWrite, WorkerType
    <2>2. j.piece \in Pieces /\ j.index \in Pieces /\ j.blocks \in Seq(Content) /\ j.blocks # <<>>
      BY <2>1 DEF JobSet
    <2>3. ContentOf(j.blocks) \in Content
      <3>1. Len(j.blocks) \in Nat \ {0}
        BY <2>2
      <3>2. j.blocks[1] \in Content
        BY <2>2, <3>1
      <3>3. QED
        BY <3>2 DEF ContentOf, Content
    <2>4. MasterType'
      BY <1>1, <2>2, <2>3 DEF VerifyAndWrite, MasterType
    <2>5. WorkerType'
      BY <1>1, <2>1, <2>2 DEF VerifyAndWrite, WorkerType, Content
    <2>6. QED
      BY <1>1, <2>4, <2>5, Unchanged DEF VerifyAndWrite
  <1>2. CASE Have(w)
    <2>1. job[w] \in Pieces
      BY <1>2 DEF Have, WorkerType
    <2>2. MasterType' /\ WorkerType'
      BY <1>2, <2>1 DEF Have, MasterType, WorkerType
    <2>3. QED
      BY <1>2, <2>2, Unchanged DEF Have
  <1>3. CASE CountPiece(w)
    <2>1. MasterType' /\ WorkerType'
      BY <1>3 DEF CountPiece, MasterType, WorkerType
    <2>2. QED
      BY <1>3, <2>1, Unchanged DEF CountPiece
  <1>4. CASE EndGameStep(w)
    <2>1. Post("CancelCheck", job[w]) \in Handler
      BY <1>4, HandlerTypes DEF EndGameStep, WorkerType, PieceKinds
    <2>2. PostToAll(strand, Post("CancelCheck", job[w])) \in [Peers -> Seq(Handler)]
      BY <2>1, PostToAllType DEF StrandType
    <2>3. StrandType'
      BY <1>4, <2>2 DEF EndGameStep, StrandType
    <2>4. WorkerType'
      BY <1>4 DEF EndGameStep, WorkerType
    <2>5. MasterType'
      <3> DEFINE starts == ready * 100 >= EndGamePercent * Cardinality(Pieces)
      <3>1. starts \in BOOLEAN
        OBVIOUS
      <3>2. endGame' = endGame \/ endGame' = starts
        BY <1>4 DEF EndGameStep
      <3> HIDE DEF starts
      <3>3. endGame' \in BOOLEAN
        BY <3>1, <3>2, Zenon DEF MasterType
      <3>4. QED
        BY <1>4, <3>3 DEF EndGameStep, MasterType
    <2>6. QED
      BY <1>4, <2>3, <2>4, <2>5, Unchanged DEF EndGameStep
  <1>5. CASE Announce(w)
    <2>1. MasterType' /\ WorkerType'
      BY <1>5 DEF Announce, MasterType, WorkerType
    <2>2. QED
      BY <1>5, <2>1, Unchanged DEF Announce
  <1>6. CASE Unbind(w)
    <2>1. MasterType' /\ WorkerType'
      BY <1>6 DEF Unbind, MasterType, WorkerType, Content
    <2>2. QED
      BY <1>6, <2>1, Unchanged DEF Unbind
  <1>7. CASE HaveLost(w)
    <2>1. MasterType' /\ WorkerType'
      BY <1>7 DEF HaveLost, MasterType, WorkerType
    <2>2. QED
      BY <1>7, <2>1, Unchanged DEF HaveLost
  <1>8. QED
    BY <1>1, <1>2, <1>3, <1>4, <1>5, <1>6, <1>7 DEF DownloadPiece

LEMMA StepType == TypeOK /\ [Next]_vars => TypeOK'
  <1> SUFFICES ASSUME TypeOK, [Next]_vars PROVE TypeOK'
    OBVIOUS
  <1>1. CASE Next
    BY <1>1, EnvironmentType, HandleResponseType, RunHandlerType, TryType, DownloadPieceType DEF Next, Strand
  <1>2. CASE UNCHANGED vars
    BY <1>2, Unchanged DEF vars, TypeOK
  <1>3. QED
    BY <1>1, <1>2

\* Whatever the remote peers, the timers and the interleaving of strands and
\* worker threads do, MasterPeer, the jobs and every PeerClient stay well formed.
THEOREM TypeCorrect == Spec => []TypeOK
  <1>1. QED
    BY InitType, StepType, PTL DEF Spec

-----------------------------------------------------------------------------
(***************************************************************************)
(* BufferNotReused, for every set of peers, pieces and workers and every   *)
(* choice of Events.  A PeerClient has one read buffer and one chain of    *)
(* reads: a posted Read, the outstanding async_read, its completion        *)
(* handler, the rest of that handler.  The argument is that the chain has  *)
(* one link at a time, and that a posted block comes before it.            *)
(***************************************************************************)

\* A link of the chain that waits in the strand.
Link(h) == h.kind = "Read" \/ h.kind \in MessageKinds

\* A handler that touches neither the chain nor the read buffer.
Plain(h) == ~Link(h) /\ h.kind # "Block"

Clean(s) == \A n \in 1 .. Len(s) : Plain(s[n])

\* At most one link, and no block after it or before a completed read.
Ordered(s) ==
    /\ \A n, m \in 1 .. Len(s) : Link(s[n]) /\ Link(s[m]) => n = m
    /\ \A n, m \in 1 .. Len(s) : s[n].kind = "Block" /\ Link(s[m]) => n < m /\ s[m].kind = "Read"

Chained(p) ==
    /\ Ordered(strand[p])
    /\ reading[p] \/ busy[p].reads => Clean(strand[p])
    /\ ~(reading[p] /\ busy[p].reads)
    /\ busy[p].at = "checked" => busy[p].reads
    /\ conn[p] = "new" => strand[p] = <<>> /\ busy[p] = Idle /\ ~reading[p] /\ ~timer[p]

ReadChain == \A p \in Peers : Chained(p)

-----------------------------------------------------------------------------
(* Queues. *)

LEMMA KindFacts ==
    /\ \A h : h.kind = "Block" => ~Link(h)
    /\ \A h : h.kind \in {"Choked", "Clear", "Try", "CancelCheck", "Cancel", "Expired", "Timeout", "KeepAlive"}
              => Plain(h)
  BY DEF Link, Plain, MessageKinds

LEMMA PostFacts ==
    /\ \A k, i : Post(k, i).kind = k
    /\ \A k : Signal(k).kind = k
    /\ \A i, b, g : PieceMsg(i, b, g).kind = "piece"
  BY DEF Post, Signal, PieceMsg

LEMMA TailOrdered ==
    ASSUME NEW s \in Seq(Handler), s # <<>>, Ordered(s)
    PROVE  Ordered(Tail(s)) /\ (Link(Head(s)) => Clean(Tail(s)))
  <1>1. /\ Len(Tail(s)) = Len(s) - 1 /\ Len(s) \in Nat /\ Len(s) > 0 /\ Head(s) = s[1]
        /\ \A n \in 1 .. Len(Tail(s)) : n + 1 \in 1 .. Len(s) /\ Tail(s)[n] = s[n + 1]
    BY TailProps
  <1>2. Ordered(Tail(s))
    BY <1>1 DEF Ordered
  <1>3. ASSUME Link(s[1]), NEW n \in 1 .. Len(Tail(s)) PROVE Plain(s[n + 1])
    BY <1>1, <1>3 DEF Ordered, Plain
  <1>4. QED
    BY <1>1, <1>2, <1>3 DEF Clean

LEMMA AppendPlain ==
    ASSUME NEW s \in Seq(Handler), NEW h \in Handler, Plain(h)
    PROVE  /\ Ordered(s) => Ordered(Append(s, h))
           /\ Clean(s) => Clean(Append(s, h))
  <1>1. /\ Len(Append(s, h)) = Len(s) + 1 /\ Len(s) \in Nat
        /\ \A n \in 1 .. Len(s) : Append(s, h)[n] = s[n]
        /\ Append(s, h)[Len(s) + 1] = h
    BY AppendProps
  <1>2. \A n \in 1 .. Len(s) + 1 : n \in 1 .. Len(s) \/ n = Len(s) + 1
    BY <1>1
  <1>3. Ordered(s) => Ordered(Append(s, h))
    BY <1>1, <1>2 DEF Ordered, Plain
  <1>4. Clean(s) => Clean(Append(s, h))
    BY <1>1, <1>2 DEF Clean
  <1>5. QED
    BY <1>3, <1>4

LEMMA AppendLink ==
    ASSUME NEW s \in Seq(Handler), NEW h \in Handler, Clean(s), Link(h)
    PROVE  Ordered(Append(s, h))
  <1>1. /\ Len(Append(s, h)) = Len(s) + 1 /\ Len(s) \in Nat
        /\ \A n \in 1 .. Len(s) : Append(s, h)[n] = s[n]
        /\ Append(s, h)[Len(s) + 1] = h
    BY AppendProps
  <1>2. \A n \in 1 .. Len(s) + 1 : n \in 1 .. Len(s) \/ n = Len(s) + 1
    BY <1>1
  <1>3. h.kind # "Block"
    BY KindFacts
  <1>4. QED
    BY <1>1, <1>2, <1>3 DEF Ordered, Clean, Plain

LEMMA AppendBlockRead ==
    ASSUME NEW s \in Seq(Handler), NEW h \in Handler, Clean(s), h.kind = "Block"
    PROVE  /\ Ordered(Append(s, h))
           /\ Ordered(Append(Append(s, h), Signal("Read")))
  <1> DEFINE t == Append(s, h)
             r == Signal("Read")
             u == Append(t, r)
  <1>1. r \in Handler /\ r.kind = "Read"
    BY HandlerTypes, PostFacts DEF SignalKinds
  <1>2. /\ t \in Seq(Handler) /\ Len(t) = Len(s) + 1 /\ Len(s) \in Nat
        /\ \A n \in 1 .. Len(s) : t[n] = s[n]
        /\ t[Len(s) + 1] = h
    BY AppendProps
  <1>3. /\ Len(u) = Len(t) + 1
        /\ \A n \in 1 .. Len(t) : u[n] = t[n]
        /\ u[Len(t) + 1] = r
    BY <1>1, <1>2, AppendProps
  <1> HIDE DEF t, u, r
  <1>4. \A n \in 1 .. Len(t) : ~Link(t[n])
    <2> TAKE n \in 1 .. Len(t)
    <2>1. n \in 1 .. Len(s) \/ n = Len(s) + 1
      BY <1>2
    <2>2. QED
      BY <1>2, <2>1, KindFacts DEF Clean, Plain
  <1>5. Ordered(t)
    BY <1>4 DEF Ordered
  <1>6. \A n \in 1 .. Len(u) : n \in 1 .. Len(t) \/ (n = Len(t) + 1 /\ u[n].kind = "Read")
    BY <1>1, <1>2, <1>3
  <1>7. \A n \in 1 .. Len(u) : /\ Link(u[n]) => n = Len(t) + 1 /\ u[n].kind = "Read"
                               /\ u[n].kind = "Block" => n < Len(t) + 1
    BY <1>2, <1>3, <1>4, <1>6
  <1>8. Ordered(u)
    BY <1>7 DEF Ordered
  <1>9. QED
    BY <1>5, <1>8 DEF t, u, r

LEMMA PostReadOrdered ==
    ASSUME NEW p, NEW s \in Seq(Handler), Clean(s)
    PROVE  Ordered(PostRead(p, s)) /\ Ordered(s)
  <1>1. Signal("Read") \in Handler /\ Link(Signal("Read"))
    BY HandlerTypes, PostFacts DEF SignalKinds, Link
  <1>2. Ordered(s)
    BY DEF Clean, Plain, Ordered
  <1>3. QED
    BY <1>1, <1>2, AppendLink DEF PostRead

-----------------------------------------------------------------------------
(* Steps. *)

\* What a step of another strand, or of a worker, may do to the peer q.
Aside(q) ==
    /\ \/ strand'[q] = strand[q]
       \/ conn[q] # "new" /\ \E h \in Handler : Plain(h) /\ strand'[q] = Append(strand[q], h)
    /\ busy'[q] = busy[q] /\ reading'[q] = reading[q] /\ conn'[q] = conn[q] /\ timer'[q] = timer[q]

LEMMA AsideChained ==
    ASSUME TypeOK, NEW q \in Peers, Chained(q), Aside(q)
    PROVE  Chained(q)'
  <1>1. CASE strand'[q] = strand[q]
    BY <1>1 DEF Aside, Chained, Ordered, Clean
  <1>2. CASE conn[q] # "new" /\ \E h \in Handler : Plain(h) /\ strand'[q] = Append(strand[q], h)
    <2>1. PICK h \in Handler : Plain(h) /\ strand'[q] = Append(strand[q], h)
      BY <1>2
    <2>2. strand[q] \in Seq(Handler)
      BY DEF TypeOK, StrandType
    <2>3. /\ Ordered(strand[q]) => Ordered(Append(strand[q], h))
          /\ Clean(strand[q]) => Clean(Append(strand[q], h))
      BY <2>1, <2>2, AppendPlain
    <2>4. Ordered(strand'[q]) /\ (Clean(strand[q]) => Clean(strand'[q]))
      BY <2>1, <2>3 DEF Chained
    <2>5. QED
      BY <1>2, <2>4 DEF Aside, Chained, Ordered, Clean
  <1>3. QED
    BY <1>1, <1>2 DEF Aside

\* What a handler that starts to run finds of the chain.
LEMMA RunsChained ==
    ASSUME TypeOK, NEW p \in Peers, Chained(p), NEW k, Runs(p, k)
    PROVE  /\ conn[p] # "new" /\ busy[p] = Idle
           /\ Ordered(Tail(strand[p]))
           /\ reading[p] => Clean(Tail(strand[p]))
           /\ k \in MessageKinds \cup {"Read"} => Clean(Tail(strand[p])) /\ ~reading[p]
  <1>1. strand[p] \in Seq(Handler) /\ strand[p] # <<>> /\ Head(strand[p]).kind = k /\ busy[p] = Idle
    BY RunsFacts
  <1>2. Ordered(Tail(strand[p])) /\ (Link(Head(strand[p])) => Clean(Tail(strand[p])))
    BY <1>1, TailOrdered DEF Chained
  <1>3. ASSUME Clean(strand[p]) PROVE Clean(Tail(strand[p])) /\ ~Link(Head(strand[p]))
    <2>1. /\ Len(strand[p]) > 0 /\ Len(strand[p]) \in Nat /\ Head(strand[p]) = strand[p][1]
          /\ Len(Tail(strand[p])) = Len(strand[p]) - 1
          /\ \A n \in 1 .. Len(Tail(strand[p])) : Tail(strand[p])[n] = strand[p][n + 1]
      BY <1>1, TailProps
    <2>2. QED
      BY <1>3, <2>1 DEF Clean, Plain
  <1>4. k \in MessageKinds \cup {"Read"} => Link(Head(strand[p]))
    BY <1>1 DEF Link
  <1>5. QED
    BY <1>1, <1>2, <1>3, <1>4 DEF Chained

LEMMA RestFacts ==
    /\ Idle.at = "idle" /\ Idle.reads = FALSE
    /\ \A r : CallTry(r).at = "try" /\ CallTry(r).reads = r
    /\ \A at, m, r : Rest(at, m, r).at = at /\ Rest(at, m, r).reads = r
  BY DEF Idle, CallTry, Rest

LEMMA EnvironmentChained ==
    ASSUME TypeOK, ReadChain, NEW p \in Peers, Environment(p)
    PROVE  ReadChain'
  <1> USE DEF TypeOK
  <1>s. strand[p] \in Seq(Handler) /\ Chained(p)
    BY DEF StrandType, ReadChain
  <1>1. ASSUME NEW m \in Handler, Deliver(p, m), Link(m) PROVE Chained(p)'
    <2>1. reading[p] /\ ~busy[p].reads /\ Clean(strand[p]) /\ conn[p] = "up"
      BY <1>1, <1>s DEF Deliver, Chained
    <2>2. Ordered(Append(strand[p], m))
      BY <1>1, <1>s, <2>1, AppendLink
    <2>3. Ordered(strand'[p]) /\ reading'[p] = FALSE /\ busy'[p] = busy[p] /\ conn'[p] = conn[p]
      BY <1>1, <2>2 DEF Deliver, StrandType, statusVars
    <2>4. QED
      BY <1>s, <2>1, <2>3 DEF Chained, Ordered
  <1>2. ASSUME NEW h \in Handler, Plain(h), conn[p] # "new", strand' = [strand EXCEPT ![p] = Append(@, h)],
               UNCHANGED <<conn, busy, reading>>
        PROVE  Chained(p)'
    <2>1. /\ Ordered(Append(strand[p], h))
          /\ Clean(strand[p]) => Clean(Append(strand[p], h))
      BY <1>2, <1>s, AppendPlain DEF Chained
    <2>2. Ordered(strand'[p]) /\ (Clean(strand[p]) => Clean(strand'[p]))
      BY <1>2, <2>1 DEF StrandType
    <2>3. QED
      BY <1>2, <1>s, <2>2 DEF Chained, Ordered, Clean
  <1>3. CASE Access(p)
    <2>1. /\ strand[p] = <<>> /\ busy[p] = Idle /\ ~reading[p]
      BY <1>3, <1>s DEF Access, Chained
    <2>2. Ordered(Append(strand[p], Signal("Read")))
      <3>1. Signal("Read") \in Handler /\ Link(Signal("Read"))
        BY HandlerTypes, PostFacts DEF Link, SignalKinds
      <3>2. Clean(strand[p])
        BY <2>1 DEF Clean
      <3>3. QED
        BY <1>s, <3>1, <3>2, AppendLink
    <2>3. Ordered(strand'[p]) /\ conn'[p] = "up" /\ busy'[p] = Idle /\ ~reading'[p]
      BY <1>3, <2>1, <2>2 DEF Access, StrandType, StatusType
    <2>4. Chained(p)'
      BY <2>3, RestFacts DEF Chained, Ordered
    <2>5. QED
      <3>1. \A q \in Peers \ {p} : Aside(q)
        BY <1>3 DEF Access, Aside, StrandType, StatusType, pieceVars
      <3>2. QED
        BY <2>4, <3>1, AsideChained DEF ReadChain
  <1>4. CASE RemoteServes(p) \/ RemoteDisturbs(p)
    <2>1. PICK m \in Handler : Deliver(p, m) /\ Link(m)
      <3>1. \A k \in {"bitfield", "unchoke", "interested", "choke"} : Signal(k) \in Handler /\ Link(Signal(k))
        BY HandlerTypes, PostFacts DEF SignalKinds, Link, MessageKinds
      <3>2. \A r \in Answerable(p) : \A g \in BOOLEAN :
                PieceMsg(r[1], r[2], g) \in Handler /\ Link(PieceMsg(r[1], r[2], g))
        BY HandlerTypes, PostFacts DEF Answerable, PieceType, Link, MessageKinds
      <3>3. \A i \in RemoteHas[p] : Post("have", i) \in Handler /\ Link(Post("have", i))
        BY HandlerTypes, PostFacts, RemoteHasAssumption DEF PieceKinds, Link, MessageKinds
      <3>4. CASE RemoteServes(p)
        BY <3>1, <3>2, <3>4 DEF RemoteServes
      <3>5. CASE RemoteDisturbs(p)
        BY <3>1, <3>2, <3>3, <3>5 DEF RemoteDisturbs
      <3>6. QED
        BY <1>4, <3>4, <3>5
    <2>2. Chained(p)'
      BY <1>1, <2>1
    <2>3. \A q \in Peers \ {p} : Aside(q)
      BY <2>1 DEF Deliver, Aside, StrandType, statusVars
    <2>4. QED
      BY <2>2, <2>3, AsideChained DEF ReadChain
  <1>5. CASE PieceTimerFires(p)
    <2>1. Signal("Expired") \in Handler /\ Plain(Signal("Expired"))
      BY HandlerTypes, PostFacts, KindFacts DEF SignalKinds
    <2>2. conn[p] # "new"
      BY <1>5, <1>s DEF PieceTimerFires, Chained
    <2>3. Chained(p)'
      BY <1>2, <1>5, <2>1, <2>2 DEF PieceTimerFires, statusVars
    <2>4. \A q \in Peers \ {p} : Aside(q)
      BY <1>5 DEF PieceTimerFires, Aside, StrandType, PieceType, statusVars
    <2>5. QED
      BY <2>3, <2>4, AsideChained DEF ReadChain
  <1>6. CASE KeepAliveTimerFires(p)
    <2>1. Signal("KeepAlive") \in Handler /\ Plain(Signal("KeepAlive"))
      BY HandlerTypes, PostFacts, KindFacts DEF SignalKinds
    <2>2. Chained(p)'
      BY <1>2, <1>6, <2>1 DEF KeepAliveTimerFires, statusVars
    <2>3. \A q \in Peers \ {p} : Aside(q)
      BY <1>6 DEF KeepAliveTimerFires, Aside, StrandType, statusVars, pieceVars
    <2>4. QED
      BY <2>2, <2>3, AsideChained DEF ReadChain
  <1>7. CASE Disconnect(p)
    <2>1. strand'[p] = strand[p] /\ busy'[p] = busy[p] /\ reading'[p] = FALSE /\ conn'[p] = "down"
      BY <1>7 DEF Disconnect, StrandType, StatusType
    <2>2. Chained(p)'
      BY <1>s, <2>1 DEF Chained, Ordered, Clean
    <2>3. \A q \in Peers \ {p} : Aside(q)
      BY <1>7 DEF Disconnect, Aside, StrandType, StatusType, PieceType
    <2>4. QED
      BY <2>2, <2>3, AsideChained DEF ReadChain
  <1>8. QED
    BY <1>3, <1>4, <1>5, <1>6, <1>7 DEF Environment

\* The queues a handler may leave behind.
LEMMA QueuesLeft ==
    ASSUME TypeOK, NEW p \in Peers, Chained(p), NEW k, Runs(p, k)
    PROVE  /\ \A h \in Handler : Plain(h) => /\ Ordered(Append(Tail(strand[p]), h))
                                             /\ reading[p] => Clean(Append(Tail(strand[p]), h))
           /\ k \in MessageKinds =>
                 /\ Ordered(PostRead(p, Tail(strand[p])))
                 /\ \A h \in Handler : Plain(h) => Ordered(PostRead(p, Append(Tail(strand[p]), h)))
  <1>1. /\ Tail(strand[p]) \in Seq(Handler)
        /\ \A h \in Handler : Append(Tail(strand[p]), h) \in Seq(Handler)
    BY RunsFacts
  <1>2. /\ Ordered(Tail(strand[p]))
        /\ reading[p] => Clean(Tail(strand[p]))
        /\ k \in MessageKinds => Clean(Tail(strand[p]))
    BY RunsChained
  <1>3. \A h \in Handler : Plain(h) =>
            /\ Ordered(Append(Tail(strand[p]), h))
            /\ Clean(Tail(strand[p])) => Clean(Append(Tail(strand[p]), h))
    BY <1>1, <1>2, AppendPlain
  <1>4. \A s \in Seq(Handler) : Clean(s) => Ordered(PostRead(p, s))
    BY PostReadOrdered
  <1>5. QED
    BY <1>1, <1>2, <1>3, <1>4

LEMMA HandleResponseChained ==
    ASSUME TypeOK, ReadChain, NEW p \in Peers, HandleResponse(p)
    PROVE  ReadChain'
  <1> USE DEF TypeOK
  <1>s. strand[p] \in Seq(Handler) /\ Chained(p)
    BY DEF StrandType, ReadChain
  <1>1. SUFFICES Chained(p)' /\ \A q \in Peers \ {p} : Aside(q)
    BY AsideChained DEF ReadChain
  <1>2. ASSUME NEW k \in MessageKinds, Runs(p, k), conn' = conn, reading' = reading,
               \/ Ordered(strand'[p]) /\ busy'[p] = busy[p]
               \/ strand'[p] = Tail(strand[p]) /\ busy'[p].reads
        PROVE  Chained(p)'
    <2>1. conn[p] # "new" /\ busy[p] = Idle /\ Clean(Tail(strand[p])) /\ ~reading[p]
      BY <1>2, <1>s, RunsChained
    <2>2. Ordered(Tail(strand[p]))
      BY <1>2, <1>s, RunsChained
    <2>3. reading'[p] = FALSE /\ conn'[p] # "new"
      BY <1>2, <2>1 DEF StrandType
    <2>4. CASE Ordered(strand'[p]) /\ busy'[p] = busy[p]
      <3>1. busy'[p].at = "idle" /\ busy'[p].reads = FALSE
        BY <2>1, <2>4, RestFacts
      <3>2. QED
        BY <2>3, <2>4, <3>1 DEF Chained, Ordered
    <2>5. CASE strand'[p] = Tail(strand[p]) /\ busy'[p].reads
      <3>1. Ordered(strand'[p]) /\ Clean(strand'[p])
        BY <2>1, <2>2, <2>5
      <3>2. QED
        BY <2>3, <2>5, <3>1 DEF Chained, Ordered, Clean
    <2>6. QED
      BY <1>2, <2>4, <2>5
  <1>3. CASE HandleChoke(p)
    <2>1. Signal("Choked") \in Handler /\ Plain(Signal("Choked")) /\ "choke" \in MessageKinds
      BY HandlerTypes, PostFacts, KindFacts DEF SignalKinds, MessageKinds
    <2>2. Ordered(PostRead(p, Append(Tail(strand[p]), Signal("Choked"))))
      BY <1>3, <1>s, <2>1, QueuesLeft DEF HandleChoke
    <2>3. Ordered(strand'[p])
      BY <1>3, <2>2 DEF HandleChoke, StrandType
    <2>4. Chained(p)'
      BY <1>2, <1>3, <2>1, <2>3 DEF HandleChoke
    <2>5. QED
      BY <1>3, <2>4 DEF HandleChoke, Aside, StrandType
  <1>4. CASE HandleUnchoke(p)
    <2>1. strand'[p] = Tail(strand[p]) /\ busy'[p].reads
      BY <1>4, RestFacts DEF HandleUnchoke, StrandType
    <2>2. Chained(p)'
      BY <1>2, <1>4, <2>1 DEF HandleUnchoke, MessageKinds
    <2>3. QED
      BY <1>4, <2>2 DEF HandleUnchoke, Aside, StrandType, pieceVars
  <1>5. CASE HandleInterested(p)
    <2>1. Ordered(PostRead(p, Tail(strand[p])))
      BY <1>5, <1>s, QueuesLeft DEF HandleInterested, MessageKinds
    <2>2. \/ strand'[p] = PostRead(p, Tail(strand[p])) /\ busy'[p] = busy[p]
          \/ strand'[p] = Tail(strand[p]) /\ busy'[p].reads
      BY <1>5, RestFacts DEF HandleInterested, StrandType
    <2>3. Chained(p)'
      BY <1>2, <1>5, <2>1, <2>2 DEF HandleInterested, MessageKinds, statusVars, Ordered
    <2>4. QED
      BY <1>5, <2>3 DEF HandleInterested, Aside, StrandType, pieceVars, statusVars
  <1>6. CASE HandleHave(p)
    <2>1. Ordered(PostRead(p, Tail(strand[p])))
      BY <1>6, <1>s, QueuesLeft DEF HandleHave, MessageKinds
    <2>2. \/ strand'[p] = PostRead(p, Tail(strand[p])) /\ busy'[p] = busy[p]
          \/ strand'[p] = Tail(strand[p]) /\ busy'[p].reads
      BY <1>6, RestFacts DEF HandleHave, StrandType
    <2>3. Chained(p)'
      BY <1>2, <1>6, <2>1, <2>2 DEF HandleHave, MessageKinds, Ordered
    <2>4. QED
      BY <1>6, <2>3 DEF HandleHave, Aside, StrandType, pieceVars
  <1>7. CASE HandleBitfield(p)
    <2>1. strand'[p] = Tail(strand[p]) /\ busy'[p].reads
      BY <1>7, RestFacts DEF HandleBitfield, StrandType
    <2>2. Chained(p)'
      BY <1>2, <1>7, <2>1 DEF HandleBitfield, MessageKinds
    <2>3. QED
      BY <1>7, <2>2 DEF HandleBitfield, Aside, StrandType, pieceVars
  <1>8. CASE HandlePiece(p)
    <2> DEFINE m == Head(strand[p])
    <2>1. m \in Handler /\ m.kind = "piece"
      BY <1>8, RunsFacts DEF HandlePiece
    <2>2. Post("Cancel", m.piece) \in Handler /\ Plain(Post("Cancel", m.piece))
      BY <2>1, HandlerTypes, PostFacts, KindFacts DEF PieceKinds
    <2>3. /\ Ordered(PostRead(p, Tail(strand[p])))
          /\ Ordered(PostRead(p, Append(Tail(strand[p]), Post("Cancel", m.piece))))
      BY <1>8, <1>s, <2>2, QueuesLeft DEF HandlePiece, MessageKinds
    <2>4. /\ \/ strand'[p] = PostRead(p, Tail(strand[p])) /\ busy'[p] = busy[p]
             \/ /\ strand'[p] = PostRead(p, Append(Tail(strand[p]), Post("Cancel", m.piece)))
                /\ busy'[p] = busy[p]
             \/ strand'[p] = Tail(strand[p]) /\ busy'[p] = Rest("checked", m, TRUE)
      BY <1>8 DEF HandlePiece, StrandType
    <2>5. \/ Ordered(strand'[p]) /\ busy'[p] = busy[p]
          \/ strand'[p] = Tail(strand[p]) /\ busy'[p].reads
      <3>1. busy'[p] = Rest("checked", m, TRUE) => busy'[p].reads
        BY DEF Rest
      <3>2. strand'[p] = PostRead(p, Tail(strand[p])) => Ordered(strand'[p])
        BY <2>3
      <3>3. strand'[p] = PostRead(p, Append(Tail(strand[p]), Post("Cancel", m.piece))) => Ordered(strand'[p])
        BY <2>3
      <3>4. QED
        BY <2>4, <3>1, <3>2, <3>3, Zenon
    <2>6. Chained(p)'
      BY <1>2, <1>8, <2>5 DEF HandlePiece, MessageKinds, statusVars
    <2>7. \A q \in Peers \ {p} : /\ strand'[q] = strand[q] /\ busy'[q] = busy[q]
                                 /\ timer'[q] = timer[q]
      BY <1>8 DEF HandlePiece, StrandType, PieceType
    <2>8. QED
      BY <1>8, <2>6, <2>7 DEF HandlePiece, Aside, statusVars
  <1>9. CASE PostBlock(p)
    <2> DEFINE h == [busy[p].msg EXCEPT !.kind = "Block"]
    <2>1. busy[p].at = "checked" /\ busy[p].reads /\ ~reading[p] /\ Clean(strand[p]) /\ conn[p] # "new"
      BY <1>9, <1>s, RestFacts DEF PostBlock, Chained
    <2>2. busy[p].msg \in Handler /\ busy[p].msg.kind = "piece"
      BY <2>1, BusyFields DEF StrandType
    <2>3. h \in Handler /\ h.kind = "Block"
      BY <2>2, HandlerTypes DEF PieceKinds, Handler
    <2> HIDE DEF h
    <2>4. Ordered(PostRead(p, Append(strand[p], h)))
      BY <1>s, <2>1, <2>3, AppendBlockRead DEF PostRead
    <2>5. Ordered(strand'[p]) /\ busy'[p] = Idle /\ reading'[p] = FALSE /\ conn'[p] # "new"
      BY <1>9, <2>1, <2>4 DEF PostBlock, StrandType, statusVars, h
    <2>6. Chained(p)'
      BY <2>5, RestFacts DEF Chained, Ordered
    <2>7. QED
      BY <1>9, <2>6 DEF PostBlock, Aside, StrandType, statusVars, pieceVars
  <1>10. QED
    BY <1>3, <1>4, <1>5, <1>6, <1>7, <1>8, <1>9 DEF HandleResponse

LEMMA RunHandlerChained ==
    ASSUME TypeOK, ReadChain, NEW p \in Peers, RunHandler(p)
    PROVE  ReadChain'
  <1> USE DEF TypeOK
  <1>s. strand[p] \in Seq(Handler) /\ Chained(p)
    BY DEF StrandType, ReadChain
  <1>1. SUFFICES Chained(p)' /\ \A q \in Peers \ {p} : Aside(q)
    BY AsideChained DEF ReadChain
  \* A plain handler: the queue loses its head and may gain a plain handler.
  <1>2. ASSUME NEW k, Runs(p, k), conn' = conn, reading' = reading,
               busy'[p] = busy[p] \/ busy'[p] = CallTry(FALSE),
               \/ strand'[p] = Tail(strand[p])
               \/ \E h \in Handler : Plain(h) /\ strand'[p] = Append(Tail(strand[p]), h)
        PROVE  Chained(p)'
    <2>1. conn[p] # "new" /\ busy[p] = Idle
      BY <1>2, <1>s, RunsChained
    <2>2. busy'[p].reads = FALSE /\ busy'[p].at # "checked"
      BY <1>2, <2>1, RestFacts
    <2>3. Ordered(strand'[p]) /\ (reading[p] => Clean(strand'[p]))
      <3>1. CASE strand'[p] = Tail(strand[p])
        BY <1>2, <1>s, <3>1, RunsChained
      <3>2. CASE \E h \in Handler : Plain(h) /\ strand'[p] = Append(Tail(strand[p]), h)
        BY <1>2, <1>s, <3>2, QueuesLeft
      <3>3. QED
        BY <1>2, <3>1, <3>2
    <2>4. QED
      BY <1>2, <2>1, <2>2, <2>3 DEF Chained, Ordered, Clean
  <1>3. CASE RunRead(p)
    <2>1. conn[p] # "new" /\ busy[p] = Idle /\ Clean(Tail(strand[p])) /\ Ordered(Tail(strand[p]))
      BY <1>3, <1>s, RunsChained DEF RunRead
    <2>2. strand'[p] = Tail(strand[p]) /\ busy'[p] = Idle /\ conn'[p] # "new"
      BY <1>3, <2>1 DEF RunRead, StrandType, statusVars
    <2>3. Clean(strand'[p]) /\ Ordered(strand'[p])
      BY <2>1, <2>2
    <2>4. Chained(p)'
      BY <2>2, <2>3, RestFacts DEF Chained, Ordered, Clean
    <2>5. QED
      BY <1>3, <2>4 DEF RunRead, Aside, StrandType, statusVars, pieceVars
  <1>4. CASE RunBlock(p)
    <2>1. Runs(p, "Block") /\ UNCHANGED <<conn, reading, timer>>
      BY <1>4 DEF RunBlock, statusVars
    <2>2. Signal("Clear") \in Handler /\ Plain(Signal("Clear"))
      BY HandlerTypes, PostFacts, KindFacts DEF SignalKinds
    <2>3. /\ strand' = [strand EXCEPT ![p] = Tail(@)]
             \/ strand' = [strand EXCEPT ![p] = Append(Tail(@), Signal("Clear"))]
          /\ busy' = busy \/ busy' = [busy EXCEPT ![p] = CallTry(FALSE)]
             \/ busy' = [busy EXCEPT ![p] = @]
      BY <1>4 DEF RunBlock
    <2>4. /\ strand'[p] = Tail(strand[p]) \/ strand'[p] = Append(Tail(strand[p]), Signal("Clear"))
          /\ busy'[p] = busy[p] \/ busy'[p] = CallTry(FALSE)
          /\ \A q \in Peers \ {p} : strand'[q] = strand[q] /\ busy'[q] = busy[q]
      BY <2>3 DEF StrandType
    <2>5. Chained(p)'
      BY <1>2, <2>1, <2>2, <2>4
    <2>6. QED
      BY <2>1, <2>4, <2>5 DEF Aside
  <1>5. CASE RunChoked(p)
    <2>1. strand'[p] = Tail(strand[p]) /\ UNCHANGED <<conn, reading, timer, busy>> /\ Runs(p, "Choked")
      BY <1>5 DEF RunChoked, StrandType, statusVars
    <2>2. Chained(p)'
      BY <1>2, <2>1
    <2>3. QED
      BY <1>5, <2>1, <2>2 DEF RunChoked, Aside, StrandType
  <1>6. CASE RunClear(p)
    <2>1. /\ strand'[p] = Tail(strand[p]) /\ busy'[p] = CallTry(FALSE)
          /\ UNCHANGED <<conn, reading, timer>> /\ Runs(p, "Clear")
      BY <1>6 DEF RunClear, StrandType, statusVars
    <2>2. Chained(p)'
      BY <1>2, <2>1
    <2>3. QED
      BY <1>6, <2>1, <2>2 DEF RunClear, Aside, StrandType
  <1>7. CASE RunTry(p)
    <2>1. /\ strand'[p] = Tail(strand[p]) /\ busy'[p] = CallTry(FALSE)
          /\ UNCHANGED <<conn, reading, timer>> /\ Runs(p, "Try")
      BY <1>7 DEF RunTry, StrandType, statusVars, pieceVars
    <2>2. Chained(p)'
      BY <1>2, <2>1
    <2>3. QED
      BY <1>7, <2>1, <2>2 DEF RunTry, Aside, StrandType
  <1>8. CASE RunCancelCheck(p)
    <2> DEFINE i == Head(strand[p]).piece
    <2>1. Runs(p, "CancelCheck") /\ UNCHANGED <<conn, reading, timer>>
      BY <1>8 DEF RunCancelCheck, statusVars, pieceVars
    <2>2. Post("Cancel", i) \in Handler /\ Plain(Post("Cancel", i))
      BY <2>1, RunsFacts, HandlerTypes, PostFacts, KindFacts DEF PieceKinds
    <2>3. /\ strand'[p] = Tail(strand[p]) \/ strand'[p] = Append(Tail(strand[p]), Post("Cancel", i))
          /\ busy'[p] = busy[p] \/ busy'[p] = CallTry(FALSE)
          /\ \A q \in Peers \ {p} : strand'[q] = strand[q] /\ busy'[q] = busy[q]
      BY <1>8 DEF RunCancelCheck, StrandType
    <2>4. Chained(p)'
      BY <1>2, <2>1, <2>2, <2>3
    <2>5. QED
      BY <2>1, <2>3, <2>4 DEF Aside
  <1>9. CASE RunCancel(p)
    <2>1. strand'[p] = Tail(strand[p]) /\ UNCHANGED <<conn, reading, timer, busy>> /\ Runs(p, "Cancel")
      BY <1>9 DEF RunCancel, StrandType, statusVars
    <2>2. Chained(p)'
      BY <1>2, <2>1
    <2>3. QED
      BY <1>9, <2>1, <2>2 DEF RunCancel, Aside, StrandType
  <1>10. CASE RunExpired(p)
    <2>1. Signal("Timeout") \in Handler /\ Plain(Signal("Timeout"))
      BY HandlerTypes, PostFacts, KindFacts DEF SignalKinds
    <2>2. /\ strand'[p] = Append(Tail(strand[p]), Signal("Timeout"))
          /\ UNCHANGED <<conn, reading, timer, busy>> /\ Runs(p, "Expired")
      BY <1>10 DEF RunExpired, StrandType, statusVars, pieceVars
    <2>3. Chained(p)'
      BY <1>2, <2>1, <2>2
    <2>4. QED
      BY <1>10, <2>2, <2>3 DEF RunExpired, Aside, StrandType
  <1>11. CASE RunTimeout(p)
    <2> DEFINE i == active[p].piece
               try == Signal("Try")
               popped == [strand EXCEPT ![p] = Tail(@)]
               woken == PostToAll(popped, try)
    <2>1. Runs(p, "Timeout") /\ UNCHANGED <<conn, reading, timer, busy>>
      BY <1>11 DEF RunTimeout, statusVars, pieceVars
    <2>2. try \in Handler /\ Plain(try)
      BY HandlerTypes, PostFacts, KindFacts DEF SignalKinds
    <2>3. i # NoPiece => Post("Cancel", i) \in Handler /\ Plain(Post("Cancel", i))
      <3>1. i \in Content
        BY DEF PieceType, ActiveSet
      <3>2. QED
        BY <3>1, HandlerTypes, PostFacts, KindFacts DEF PieceKinds, Content
    <2>4. /\ popped \in [Peers -> Seq(Handler)] /\ popped[p] = Tail(strand[p])
          /\ \A q \in Peers \ {p} : popped[q] = strand[q]
      BY <2>1, RunsFacts DEF StrandType
    <2> HIDE DEF try, popped
    <2>5. /\ woken \in [Peers -> Seq(Handler)]
          /\ \A q \in Peers : woken[q] = IF conn[q] = "up" THEN Append(popped[q], try) ELSE popped[q]
      BY <2>2, <2>4, PostToAllType DEF PostToAll
    <2> HIDE DEF woken
    <2>6. \/ i = NoPiece /\ strand' = popped
          \/ i # NoPiece /\ strand' = woken
          \/ i # NoPiece /\ strand' = [woken EXCEPT ![p] = Append(@, Post("Cancel", i))]
      BY <1>11 DEF RunTimeout, woken, popped, try
    <2>7. \A q \in Peers \ {p} :
              strand'[q] = strand[q] \/ (conn[q] = "up" /\ strand'[q] = Append(strand[q], try))
      BY <2>4, <2>5, <2>6
    <2>8. \/ strand'[p] = Tail(strand[p])
          \/ strand'[p] = Append(Tail(strand[p]), try)
          \/ i # NoPiece /\ strand'[p] = Append(Tail(strand[p]), Post("Cancel", i))
          \/ i # NoPiece /\ strand'[p] = Append(Append(Tail(strand[p]), try), Post("Cancel", i))
      <3>1. popped[p] = Tail(strand[p])
        BY <2>4
      <3>2. woken[p] = Tail(strand[p]) \/ woken[p] = Append(Tail(strand[p]), try)
        BY <2>5, <3>1
      <3>3. CASE i = NoPiece /\ strand' = popped
        BY <3>1, <3>3
      <3>4. CASE i # NoPiece /\ strand' = woken
        BY <3>2, <3>4
      <3>5. CASE i # NoPiece /\ strand' = [woken EXCEPT ![p] = Append(@, Post("Cancel", i))]
        <4>1. strand'[p] = Append(woken[p], Post("Cancel", i))
          BY <2>5, <3>5
        <4>2. QED
          BY <3>2, <3>5, <4>1
      <3>6. QED
        BY <2>6, <3>3, <3>4, <3>5
    <2>9. /\ conn[p] # "new" /\ busy[p] = Idle
          /\ Ordered(Append(Tail(strand[p]), try))
          /\ reading[p] => Clean(Append(Tail(strand[p]), try))
          /\ Append(Tail(strand[p]), try) \in Seq(Handler)
      BY <1>s, <2>1, <2>2, RunsChained, QueuesLeft, RunsFacts
    <2>10. CASE i # NoPiece /\ strand'[p] = Append(Append(Tail(strand[p]), try), Post("Cancel", i))
      <3>1. Ordered(strand'[p]) /\ (reading[p] => Clean(strand'[p]))
        BY <2>3, <2>9, <2>10, AppendPlain
      <3>2. QED
        <4>1. Chained(p)'
          BY <1>s, <2>1, <2>9, <3>1, RestFacts DEF Chained, Ordered, Clean
        <4>2. QED
          BY <2>1, <2>2, <2>7, <4>1 DEF Aside
    <2>11. CASE ~(i # NoPiece /\ strand'[p] = Append(Append(Tail(strand[p]), try), Post("Cancel", i)))
      <3>1. \/ strand'[p] = Tail(strand[p])
            \/ \E h \in Handler : Plain(h) /\ strand'[p] = Append(Tail(strand[p]), h)
        BY <2>2, <2>3, <2>8, <2>11
      <3>2. Chained(p)'
        BY <1>2, <2>1, <3>1
      <3>3. QED
        BY <2>1, <2>2, <2>7, <3>2 DEF Aside
    <2>12. QED
      BY <2>10, <2>11
  <1>12. CASE RunKeepAlive(p)
    <2>1. /\ strand'[p] = Tail(strand[p]) /\ (busy'[p] = busy[p] \/ busy'[p] = CallTry(FALSE))
          /\ UNCHANGED <<conn, reading, timer>> /\ Runs(p, "KeepAlive")
      BY <1>12 DEF RunKeepAlive, StrandType, statusVars, pieceVars
    <2>2. strand'[p] = Tail(strand[p]) /\ \A q \in Peers \ {p} : Aside(q)
      BY <1>12, <2>1 DEF RunKeepAlive, Aside, StrandType
    <2>3. Chained(p)'
      BY <1>2, <2>1, <2>2
    <2>4. QED
      BY <2>2, <2>3
  <1>13. QED
    BY <1>3, <1>4, <1>5, <1>6, <1>7, <1>8, <1>9, <1>10, <1>11, <1>12 DEF RunHandler

LEMMA TryChained ==
    ASSUME TypeOK, ReadChain, NEW p \in Peers, TryToRequestPiece(p)
    PROVE  ReadChain'
  <1> USE DEF TypeOK
  <1>s. strand[p] \in Seq(Handler) /\ Chained(p)
    BY DEF StrandType, ReadChain
  <1>1. busy[p].at \in {"try", "chosen"}
    BY DEF TryToRequestPiece, TryNothing, TryChoose, TryRequest, TryContinue
  <1>2. conn[p] # "new"
    BY <1>s, <1>1, RestFacts DEF Chained
  <1>3. SUFFICES Chained(p)' /\ \A q \in Peers \ {p} : Aside(q)
    BY AsideChained DEF ReadChain
  <1>4. CASE TryChoose(p)
    <2>1. PICK i \in Candidates(p) :
              busy' = [busy EXCEPT ![p] = Rest("chosen", Post("Try", i), @.reads)]
      BY <1>4 DEF TryChoose
    <2>2. /\ busy'[p].at = "chosen" /\ busy'[p].reads = busy[p].reads
          /\ UNCHANGED <<conn, reading, timer, strand>>
      BY <1>4, <2>1, RestFacts DEF TryChoose, StrandType, pieceVars
    <2>3. Chained(p)'
      BY <1>s, <1>2, <2>2 DEF Chained, Ordered, Clean
    <2>4. QED
      BY <2>1, <2>2, <2>3 DEF Aside, StrandType
  <1>5. ASSUME Return(p), UNCHANGED <<conn, reading>>,
               \A q \in Peers \ {p} : timer'[q] = timer[q]
        PROVE  Chained(p)' /\ \A q \in Peers \ {p} : Aside(q)
    <2>1. Ordered(IF busy[p].reads THEN PostRead(p, strand[p]) ELSE strand[p])
      BY <1>s, PostReadOrdered DEF Chained
    <2>2. busy[p].reads => ~reading[p]
      BY <1>s DEF Chained
    <2>3. /\ Ordered(strand'[p]) /\ busy'[p] = Idle
          /\ \A q \in Peers \ {p} : strand'[q] = strand[q] /\ busy'[q] = busy[q]
          /\ ~busy[p].reads => strand'[p] = strand[p]
      BY <1>5, <2>1 DEF Return, StrandType
    <2>4. reading'[p] => Clean(strand'[p])
      BY <1>s, <1>5, <2>2, <2>3 DEF Chained
    <2>5. Chained(p)'
      BY <1>2, <1>5, <2>3, <2>4, RestFacts DEF Chained, Ordered, Clean
    <2>6. QED
      BY <1>5, <2>3, <2>5 DEF Aside
  <1>6. CASE TryNothing(p)
    BY <1>5, <1>6 DEF TryNothing, pieceVars
  <1>7. CASE TryRequest(p)
    BY <1>5, <1>7 DEF TryRequest, statusVars, PieceType
  <1>8. CASE TryContinue(p)
    <2>1. \A q \in Peers \ {p} : timer'[q] = timer[q]
      BY <1>8 DEF TryContinue, pieceVars, PieceType
    <2>2. QED
      BY <1>5, <1>8, <2>1 DEF TryContinue, statusVars
  <1>9. QED
    BY <1>4, <1>6, <1>7, <1>8 DEF TryToRequestPiece

LEMMA DownloadPieceChained ==
    ASSUME TypeOK, ReadChain, NEW w \in Workers, DownloadPiece(w)
    PROVE  ReadChain'
  <1> USE DEF TypeOK
  <1>1. SUFFICES \A q \in Peers : Aside(q)
    BY AsideChained DEF ReadChain
  <1>2. UNCHANGED <<busy, reading, conn, timer>>
    BY DEF DownloadPiece, VerifyAndWrite, Have, HaveLost, CountPiece, EndGameStep, Announce, Unbind,
           strandVars, statusVars, pieceVars
  <1>3. CASE strand' = strand
    BY <1>2, <1>3 DEF Aside
  <1>4. CASE strand' # strand
    <2> DEFINE h == Post("CancelCheck", job[w])
    <2>1. step[w] = "strategy" /\ strand' = PostToAll(strand, h)
      BY <1>4 DEF DownloadPiece, VerifyAndWrite, Have, HaveLost, CountPiece, EndGameStep, Announce, Unbind, strandVars
    <2>2. h \in Handler /\ Plain(h)
      BY <2>1, HandlerTypes, PostFacts, KindFacts DEF WorkerType, PieceKinds
    <2>3. \A q \in Peers : strand'[q] = IF conn[q] = "up" THEN Append(strand[q], h) ELSE strand[q]
      BY <2>1 DEF PostToAll
    <2> HIDE DEF h
    <2>4. QED
      BY <1>2, <2>2, <2>3 DEF Aside
  <1>5. QED
    BY <1>3, <1>4

-----------------------------------------------------------------------------
LEMMA InitChained == Init => ReadChain
  BY RestFacts DEF Init, ReadChain, Chained, Ordered, Clean

LEMMA StepChained == TypeOK /\ ReadChain /\ [Next]_vars => ReadChain'
  <1> SUFFICES ASSUME TypeOK, ReadChain, [Next]_vars PROVE ReadChain'
    OBVIOUS
  <1>1. CASE Next
    BY <1>1, EnvironmentChained, HandleResponseChained, RunHandlerChained, TryChained, DownloadPieceChained
       DEF Next, Strand
  <1>2. CASE UNCHANGED vars
    <2>1. UNCHANGED <<strand, busy, reading, conn, timer>>
      BY <1>2 DEF vars, strandVars, statusVars, pieceVars
    <2>2. \A q \in Peers : Aside(q)
      BY <2>1 DEF Aside
    <2>3. QED
      BY <2>2, AsideChained DEF ReadChain
  <1>3. QED
    BY <1>1, <1>2

LEMMA ChainProtectsBuffer == TypeOK /\ ReadChain => BufferNotReused
  <1> SUFFICES ASSUME TypeOK, ReadChain, NEW p \in Peers, NEW n \in Queued(p, "Block")
               PROVE  ~reading[p] /\ \A m \in Queued(p, "Read") : n < m
    BY DEF BufferNotReused
  <1>1. Chained(p) /\ n \in 1 .. Len(strand[p]) /\ strand[p][n].kind = "Block"
    BY DEF ReadChain, Queued
  <1>2. ~reading[p]
    BY <1>1 DEF Chained, Clean, Plain
  <1>3. \A m \in Queued(p, "Read") : n < m
    BY <1>1 DEF Chained, Ordered, Queued, Link
  <1>4. QED
    BY <1>2, <1>3

\* The lambda that OnPieceBlock posts finds its block still in the read buffer:
\* do_read_header never starts a read into it before the lambda has run.
THEOREM BufferSafe == Spec => []BufferNotReused
  <1>1. QED
    BY TypeCorrect, InitChained, StepChained, ChainProtectsBuffer, PTL DEF Spec

-----------------------------------------------------------------------------
(***************************************************************************)
(* Integrity, NoCrash, RequestsForActive and RequestedHasOwner, for every  *)
(* set of peers, pieces and workers, every window and every number of      *)
(* blocks, also 0, while no timer of a client fires, no answer is late, no *)
(* bit of the bitfield is lost and no remote answers a request that        *)
(* reaches past the end of its piece or asks for no byte.  With late       *)
(* answers, keep-alives, lost bits or such answers one of them fails; a    *)
(* timer hands a piece on while answers are to come.                       *)
(*                                                                         *)
(* A block is stored in whatever piece is active when its lambda runs.     *)
(* The argument is that a piece not yet done stays active as long as an    *)
(* answer for it can come, or is on its way through the strand: what ends  *)
(* the activity comes only after the last answer (Clear), when the remote  *)
(* dropped the requests (Choked), or when the piece is done (Cancel), and  *)
(* a Cancel is posted twice, so that a block already checked is before it. *)
(***************************************************************************)
Calm == Events \cap {"late", "resize", "timeout", "keepalive", "beyond"} = {}

\* The blocks of i that the remote may still send, when it holds the requests wr.
Asked(wr, i) == {b \in 0 .. (Served(i) - 1) : <<i, b>> \in wr}

\* In the following s is the strand of a client, b the rest of its handler, a its
\* active piece, rd whether it reads, ch whether it is choked, wr the requests its
\* remote holds, and H the pieces done.

NoTimers(s) == \A n \in 1 .. Len(s) : s[n].kind \notin {"Try", "Expired", "Timeout", "KeepAlive"}

CancelsDone(s, H) == \A n \in 1 .. Len(s) : s[n].kind \in {"Cancel", "CancelCheck"} => s[n].piece \in H

\* The reset posted by a choke runs before the next read.
ChokedFirst(s, b, rd, ch) ==
    \A n \in 1 .. Len(s) : s[n].kind = "Choked" =>
        /\ ch /\ ~rd /\ b.at # "checked"
        /\ \A m \in 1 .. Len(s) : Link(s[m]) \/ s[m].kind = "Block" => m > n /\ s[m].kind = "Read"

\* Until Clear runs, the piece it drops is complete or gone, and no other is chosen.
ClearSettled(s, b, a) ==
    \A n \in 1 .. Len(s) : s[n].kind = "Clear" =>
        /\ a.piece = NoPiece \/ a.count = BlockCount[a.piece]
        /\ \A m \in 1 .. Len(s) : /\ s[m].kind # "Block"
                                  /\ s[m].kind = "Clear" => m = n
                                  /\ s[m].kind \in MessageKinds => m > n
        /\ b.at \in {"idle", "try"}
        /\ b.at = "try" => a.piece # NoPiece

\* A posted block is of the active piece, which no handler before it drops.
BlockFits(s, a) ==
    \A n \in 1 .. Len(s) : s[n].kind = "Block" =>
        /\ s[n].piece = a.piece /\ s[n].block < BlockCount[a.piece]
        /\ \A m \in 1 .. Len(s) : /\ s[m].kind = "Block" => m = n
                                  /\ s[m].kind = "Cancel" /\ s[m].piece = a.piece => m > n

CheckedFits(s, b, a) ==
    b.at = "checked" =>
        /\ b.msg.piece = a.piece /\ b.msg.block < BlockCount[a.piece]
        /\ \A n \in 1 .. Len(s) : s[n].kind = "Cancel" => s[n].piece # a.piece

AnswersFit(s, a, H) ==
    \A n \in 1 .. Len(s) : s[n].kind = "piece" =>
        /\ s[n].block < BlockCount[s[n].piece]
        /\ s[n].piece \in H \/ s[n].piece = a.piece

AskedFit(a, wr, H) == \A i \in Pieces : Asked(wr, i) # {} => i \in H \/ i = a.piece

ChosenNew(s, b, a, ch, wr) ==
    b.at = "chosen" =>
        /\ a.piece = NoPiece /\ ~ch /\ Asked(wr, b.msg.piece) = {}
        /\ \A n \in 1 .. Len(s) : s[n].kind = "piece" => s[n].piece # b.msg.piece

\* An answer for piece i is on its way through the strand.
Coming(s, b, i) ==
    \/ b.at = "checked" /\ b.msg.piece = i
    \/ \E n \in 1 .. Len(s) : s[n].kind \in {"piece", "Block"} /\ s[n].piece = i

Expected(a, wr) == a.count + Cardinality(Asked(wr, a.piece))

\* No more answers can come than the active piece lacks blocks.
RoomLeft(s, b, a, wr) ==
    a.piece # NoPiece =>
        /\ Len(a.blocks) = BlockCount[a.piece]
        /\ Expected(a, wr) <= a.begin /\ Expected(a, wr) <= BlockCount[a.piece]
        /\ Coming(s, b, a.piece) => Expected(a, wr) < a.begin /\ Expected(a, wr) < BlockCount[a.piece]

Fit(s, b, a, rd, ch, wr, H) ==
    /\ NoTimers(s) /\ CancelsDone(s, H)
    /\ ChokedFirst(s, b, rd, ch) /\ ClearSettled(s, b, a)
    /\ BlockFits(s, a) /\ CheckedFits(s, b, a) /\ AnswersFit(s, a, H)
    /\ AskedFit(a, wr, H) /\ (ch => wr = {})
    /\ ChosenNew(s, b, a, ch, wr) /\ RoomLeft(s, b, a, wr)

-----------------------------------------------------------------------------
(* Requests. *)

\* At most the last block of a piece is not served.
LEMMA ServedFacts ==
    ASSUME NEW i \in Pieces
    PROVE  /\ BlockCount[i] \in Nat /\ Served(i) \in Nat
           /\ Served(i) <= BlockCount[i] /\ BlockCount[i] <= Served(i) + 1
           /\ BlockCount[i] <= Window \/ EndsWithWindow(i) => ~Overlong(i) /\ Served(i) = BlockCount[i]
  <1>1. BlockCount[i] \in Nat /\ Window \in Nat /\ Window > 0
    BY BlockCountAssumption, WindowAssumption
  <1>2. BlockCount[i] <= Window \/ EndsWithWindow(i) => ~Overlong(i)
    BY <1>1 DEF EndsWithWindow, Overlong
  <1>3. Overlong(i) => BlockCount[i] > Window
    BY DEF Overlong
  <1>4. QED
    BY <1>1, <1>2, <1>3 DEF Served

LEMMA AskedFinite ==
    ASSUME NEW wr, NEW i \in Pieces
    PROVE  /\ IsFiniteSet(Asked(wr, i)) /\ Cardinality(Asked(wr, i)) \in Nat
           /\ Cardinality(Asked(wr, i)) = 0 <=> Asked(wr, i) = {}
  <1>1. Served(i) \in Nat
    BY ServedFacts
  <1>2. IsFiniteSet(0 .. (Served(i) - 1))
    BY <1>1, FS_Interval
  <1>3. Asked(wr, i) \subseteq 0 .. (Served(i) - 1)
    BY DEF Asked
  <1>4. IsFiniteSet(Asked(wr, i))
    BY <1>2, <1>3, FS_Subset
  <1>5. QED
    BY <1>4, FS_CardinalityType, FS_EmptySet

LEMMA AskedNone == \A i : Asked({}, i) = {}
  BY DEF Asked

\* An answer takes its request off the wire.
LEMMA AskedAnswered ==
    ASSUME NEW wr, NEW i \in Pieces, NEW c \in Nat, <<i, c>> \in wr, c < Served(i)
    PROVE  /\ Asked(wr, i) # {}
           /\ Cardinality(Asked(wr \ {<<i, c>>}, i)) = Cardinality(Asked(wr, i)) - 1
           /\ \A j \in Pieces : j # i => Asked(wr \ {<<i, c>>}, j) = Asked(wr, j)
           /\ \A j \in Pieces : Asked(wr \ {<<i, c>>}, j) \subseteq Asked(wr, j)
  <1>1. Served(i) \in Nat
    BY ServedFacts
  <1>2. c \in Asked(wr, i)
    BY <1>1 DEF Asked
  <1>3. Asked(wr \ {<<i, c>>}, i) = Asked(wr, i) \ {c}
    BY DEF Asked
  <1>4. Cardinality(Asked(wr, i) \ {c}) = Cardinality(Asked(wr, i)) - 1
    BY <1>2, AskedFinite, FS_RemoveElement
  <1>5. \A j \in Pieces : j # i => Asked(wr \ {<<i, c>>}, j) = Asked(wr, j)
    BY DEF Asked
  <1>6. \A j \in Pieces : Asked(wr \ {<<i, c>>}, j) \subseteq Asked(wr, j)
    BY DEF Asked
  <1>7. QED
    BY <1>2, <1>3, <1>4, <1>5, <1>6

LEMMA IntervalSize ==
    ASSUME NEW x \in Nat, NEW y \in Nat, x <= y
    PROVE  IsFiniteSet(x .. (y - 1)) /\ Cardinality(x .. (y - 1)) = y - x
  <1>1. x \in Int /\ y - 1 \in Int
    OBVIOUS
  <1>2. IsFiniteSet(x .. (y - 1)) /\ Cardinality(x .. (y - 1)) = IF x > y - 1 THEN 0 ELSE (y - 1) - x + 1
    BY <1>1, FS_Interval, Zenon
  <1>3. QED
    BY <1>2

\* The requests for the blocks of i from x up to y are sent.
Widened(wr, i, x, y) == wr \cup {<<i, c>> : c \in x .. (y - 1)}

\* The requests from x up to y add at most as many blocks as there are.
LEMMA AskedMore ==
    ASSUME NEW wr, NEW i \in Pieces, NEW x \in Nat, NEW y \in Nat, x <= y
    PROVE  /\ Cardinality(Asked(Widened(wr, i, x, y), i)) <= Cardinality(Asked(wr, i)) + (y - x)
           /\ x <= Served(i) => Cardinality(Asked(Widened(wr, i, x, y), i)) <= Cardinality(Asked(wr, i)) + (Served(i) - x)
           /\ x >= Served(i) => Asked(Widened(wr, i, x, y), i) = Asked(wr, i)
           /\ \A j \in Pieces : j # i => Asked(Widened(wr, i, x, y), j) = Asked(wr, j)
  <1> DEFINE new == Widened(wr, i, x, y)
             more == {c \in x .. (y - 1) : c < Served(i)}
  <1>1. Served(i) \in Nat
    BY ServedFacts
  <1>2. Asked(new, i) = Asked(wr, i) \cup more
    BY <1>1 DEF Asked, Widened
  <1>3. \A j \in Pieces : j # i => Asked(new, j) = Asked(wr, j)
    BY DEF Asked, Widened
  <1>4. IsFiniteSet(x .. (y - 1)) /\ Cardinality(x .. (y - 1)) = y - x
    BY IntervalSize
  <1>5. more \subseteq x .. (y - 1)
    OBVIOUS
  <1>6. IsFiniteSet(more) /\ Cardinality(more) <= y - x /\ Cardinality(more) \in Nat
    BY <1>4, <1>5, FS_Subset, FS_CardinalityType
  <1>7. Cardinality(Asked(new, i)) <= Cardinality(Asked(wr, i)) + Cardinality(more)
    <2>1. IsFiniteSet(Asked(wr, i)) /\ Cardinality(Asked(wr, i)) \in Nat
      BY AskedFinite
    <2>2. /\ IsFiniteSet(Asked(wr, i) \cap more) /\ Cardinality(Asked(wr, i) \cap more) \in Nat
      BY <2>1, FS_Intersection, FS_CardinalityType
    <2>3. Cardinality(Asked(wr, i) \cup more) = Cardinality(Asked(wr, i)) + Cardinality(more) - Cardinality(Asked(wr, i) \cap more)
      BY <2>1, <1>6, FS_Union
    <2>4. Cardinality(Asked(wr, i) \cup more) <= Cardinality(Asked(wr, i)) + Cardinality(more)
      <3> HIDE DEF more, new
      <3>1. QED
        BY <1>6, <2>1, <2>2, <2>3
    <2>5. QED
      BY <1>2, <2>4, Zenon
  <1>8. x <= Served(i) => Cardinality(more) <= Served(i) - x
    <2> SUFFICES ASSUME x <= Served(i) PROVE Cardinality(more) <= Served(i) - x
      OBVIOUS
    <2>1. IsFiniteSet(x .. (Served(i) - 1)) /\ Cardinality(x .. (Served(i) - 1)) = Served(i) - x
      BY <1>1, IntervalSize
    <2>2. more \subseteq x .. (Served(i) - 1)
      BY <1>1
    <2>3. QED
      BY <2>1, <2>2, FS_Subset
  <1>9. x >= Served(i) => more = {}
    BY <1>1
  <1>10. Cardinality(Asked(wr, i)) \in Nat /\ Cardinality(Asked(new, i)) \in Nat
    BY AskedFinite
  <1>11. x >= Served(i) => Asked(new, i) = Asked(wr, i)
    <2>1. more = {} => Asked(wr, i) \cup more = Asked(wr, i)
      OBVIOUS
    <2>2. QED
      BY <1>2, <1>9, <2>1, Zenon
  <1>12. QED
    <2> HIDE DEF more, new
    <2>1. /\ Cardinality(Asked(new, i)) <= Cardinality(Asked(wr, i)) + (y - x)
          /\ x <= Served(i) => Cardinality(Asked(new, i)) <= Cardinality(Asked(wr, i)) + (Served(i) - x)
      BY <1>1, <1>6, <1>7, <1>8, <1>10
    <2>2. QED
      BY <2>1, <1>3, <1>11, Zenon DEF new

-----------------------------------------------------------------------------
(* Elementary changes of a client. *)

LEMMA GrowFit ==
    ASSUME NEW s, NEW b, NEW a, NEW rd, NEW ch, NEW wr, NEW H, NEW G,
           Fit(s, b, a, rd, ch, wr, H), H \subseteq G
    PROVE  Fit(s, b, a, rd, ch, wr, G)
  <1>1. CancelsDone(s, G)
    BY DEF Fit, CancelsDone
  <1>2. AnswersFit(s, a, G)
    BY DEF Fit, AnswersFit
  <1>3. AskedFit(a, wr, G)
    BY DEF Fit, AskedFit
  <1>4. QED
    BY <1>1, <1>2, <1>3 DEF Fit

\* The first handler leaves the strand.
LEMMA PopFit ==
    ASSUME NEW s \in Seq(Handler), s # <<>>, NEW b, NEW a, NEW rd, NEW ch, NEW wr, NEW H,
           Fit(s, b, a, rd, ch, wr, H)
    PROVE  Fit(Tail(s), b, a, rd, ch, wr, H)
  <1> DEFINE t == Tail(s)
  <1>1. /\ Len(s) \in Nat /\ Len(t) \in Nat
        /\ \A n \in 1 .. Len(t) : n + 1 \in 1 .. Len(s) /\ t[n] = s[n + 1]
    BY TailProps
  <1> HIDE DEF t
  <1>2. NoTimers(t)
    BY <1>1 DEF Fit, NoTimers
  <1>3. CancelsDone(t, H)
    BY <1>1 DEF Fit, CancelsDone
  <1>4. ChokedFirst(t, b, rd, ch)
    <2>1. ChokedFirst(s, b, rd, ch)
      BY DEF Fit
    <2>2. ASSUME NEW n \in 1 .. Len(t), t[n].kind = "Choked"
          PROVE  /\ n + 1 \in 1 .. Len(s) /\ s[n + 1].kind = "Choked" /\ t[n] = s[n + 1]
                 /\ \A m \in 1 .. Len(t) : /\ m + 1 \in 1 .. Len(s) /\ t[m] = s[m + 1]
                                           /\ m + 1 > n + 1 <=> m > n
                                           /\ m + 1 = n + 1 <=> m = n
      BY <1>1, <2>2
    <2>3. QED
      BY <2>1, <2>2 DEF ChokedFirst
  <1>5. ClearSettled(t, b, a)
    <2>1. ClearSettled(s, b, a)
      BY DEF Fit
    <2>2. ASSUME NEW n \in 1 .. Len(t), t[n].kind = "Clear"
          PROVE  /\ n + 1 \in 1 .. Len(s) /\ s[n + 1].kind = "Clear" /\ t[n] = s[n + 1]
                 /\ \A m \in 1 .. Len(t) : /\ m + 1 \in 1 .. Len(s) /\ t[m] = s[m + 1]
                                           /\ m + 1 > n + 1 <=> m > n
                                           /\ m + 1 = n + 1 <=> m = n
      BY <1>1, <2>2
    <2>3. QED
      BY <2>1, <2>2 DEF ClearSettled
  <1>6. BlockFits(t, a)
    <2>1. BlockFits(s, a)
      BY DEF Fit
    <2>2. ASSUME NEW n \in 1 .. Len(t), t[n].kind = "Block"
          PROVE  /\ n + 1 \in 1 .. Len(s) /\ s[n + 1].kind = "Block" /\ t[n] = s[n + 1]
                 /\ \A m \in 1 .. Len(t) : /\ m + 1 \in 1 .. Len(s) /\ t[m] = s[m + 1]
                                           /\ m + 1 > n + 1 <=> m > n
                                           /\ m + 1 = n + 1 <=> m = n
      BY <1>1, <2>2
    <2>3. QED
      BY <2>1, <2>2 DEF BlockFits
  <1>7. CheckedFits(t, b, a)
    BY <1>1 DEF Fit, CheckedFits
  <1>8. AnswersFit(t, a, H)
    BY <1>1 DEF Fit, AnswersFit
  <1>9. ChosenNew(t, b, a, ch, wr)
    BY <1>1 DEF Fit, ChosenNew
  <1>10. RoomLeft(t, b, a, wr)
    <2>1. Coming(t, b, a.piece) => Coming(s, b, a.piece)
      BY <1>1 DEF Coming
    <2>2. QED
      BY <2>1 DEF Fit, RoomLeft
  <1>11. Fit(t, b, a, rd, ch, wr, H)
    BY <1>2, <1>3, <1>4, <1>5, <1>6, <1>7, <1>8, <1>9, <1>10 DEF Fit
  <1>12. QED
    BY <1>11 DEF t

\* A read, or the cancel of a piece that is done, joins the strand.
LEMMA PushFit ==
    ASSUME NEW s \in Seq(Handler), NEW b, NEW a, NEW rd, NEW ch, NEW wr, NEW H, NEW h \in Handler,
           Fit(s, b, a, rd, ch, wr, H), h.kind \in {"Read", "CancelCheck", "Cancel"},
           h.kind # "Read" => h.piece \in H, h.kind = "Cancel" => b.at # "checked"
    PROVE  Fit(Append(s, h), b, a, rd, ch, wr, H)
  <1> DEFINE t == Append(s, h)
  <1>1. /\ Len(s) \in Nat /\ Len(t) = Len(s) + 1 /\ t[Len(s) + 1] = h
        /\ \A n \in 1 .. Len(s) : t[n] = s[n]
    BY AppendProps
  <1> HIDE DEF t
  <1>2. NoTimers(t)
    BY <1>1 DEF Fit, NoTimers
  <1>3. CancelsDone(t, H)
    BY <1>1 DEF Fit, CancelsDone
  <1>4. ChokedFirst(t, b, rd, ch)
    BY <1>1 DEF Fit, ChokedFirst, Link, MessageKinds
  <1>5. ClearSettled(t, b, a)
    BY <1>1 DEF Fit, ClearSettled, MessageKinds
  <1>6. BlockFits(t, a)
    BY <1>1 DEF Fit, BlockFits
  <1>7. CheckedFits(t, b, a)
    BY <1>1 DEF Fit, CheckedFits
  <1>8. AnswersFit(t, a, H)
    BY <1>1 DEF Fit, AnswersFit
  <1>9. ChosenNew(t, b, a, ch, wr)
    BY <1>1 DEF Fit, ChosenNew
  <1>10. RoomLeft(t, b, a, wr)
    <2>1. Coming(t, b, a.piece) => Coming(s, b, a.piece)
      BY <1>1 DEF Coming
    <2>2. QED
      BY <2>1 DEF Fit, RoomLeft
  <1>11. Fit(t, b, a, rd, ch, wr, H)
    BY <1>2, <1>3, <1>4, <1>5, <1>6, <1>7, <1>8, <1>9, <1>10 DEF Fit
  <1>12. QED
    BY <1>11 DEF t

LEMMA PostReadFit ==
    ASSUME NEW p, NEW s \in Seq(Handler), NEW b, NEW a, NEW rd, NEW ch, NEW wr, NEW H,
           Fit(s, b, a, rd, ch, wr, H)
    PROVE  Fit(PostRead(p, s), b, a, rd, ch, wr, H)
  <1>1. Signal("Read") \in Handler /\ Signal("Read").kind = "Read"
    BY HandlerTypes DEF SignalKinds, Signal, Post
  <1>2. Fit(Append(s, Signal("Read")), b, a, rd, ch, wr, H)
    BY <1>1, PushFit
  <1>3. QED
    BY <1>2 DEF PostRead

\* The rest of a handler ends.
LEMMA IdleFit ==
    ASSUME NEW s, NEW b, NEW a, NEW rd, NEW ch, NEW wr, NEW H,
           Fit(s, b, a, rd, ch, wr, H)
    PROVE  Fit(s, Idle, a, rd, ch, wr, H)
  <1>1. Idle.at = "idle"
    BY DEF Idle, Rest
  <1>2. ChokedFirst(s, Idle, rd, ch) /\ ClearSettled(s, Idle, a) /\ CheckedFits(s, Idle, a) /\ ChosenNew(s, Idle, a, ch, wr)
    BY <1>1 DEF Fit, ChokedFirst, ClearSettled, CheckedFits, ChosenNew
  <1>3. RoomLeft(s, Idle, a, wr)
    <2>1. Coming(s, Idle, a.piece) => Coming(s, b, a.piece)
      BY <1>1 DEF Coming
    <2>2. QED
      BY <2>1 DEF Fit, RoomLeft
  <1>4. QED
    BY <1>2, <1>3 DEF Fit

-----------------------------------------------------------------------------
(* What the remote and the network do to a client. *)

LEMMA DeliverFit ==
    ASSUME NEW s \in Seq(Handler), NEW b, NEW a, NEW ch, NEW wr, NEW H, NEW m \in Handler,
           Fit(s, b, a, TRUE, ch, wr, H), m.kind \in MessageKinds, m.kind # "piece"
    PROVE  Fit(Append(s, m), b, a, FALSE, ch, wr, H)
  <1> DEFINE t == Append(s, m)
  <1>1. /\ Len(s) \in Nat /\ Len(t) = Len(s) + 1 /\ t[Len(s) + 1] = m
        /\ \A n \in 1 .. Len(s) : t[n] = s[n]
    BY AppendProps
  <1>2. m.kind \in {"choke", "unchoke", "interested", "have", "bitfield"}
    BY DEF MessageKinds
  <1> HIDE DEF t
  <1>3. NoTimers(t) /\ CancelsDone(t, H)
    BY <1>1, <1>2 DEF Fit, NoTimers, CancelsDone
  <1>4. ChokedFirst(t, b, FALSE, ch)
    <2>1. \A n \in 1 .. Len(s) : s[n].kind # "Choked"
      BY DEF Fit, ChokedFirst
    <2>2. \A n \in 1 .. Len(t) : t[n].kind # "Choked"
      BY <1>1, <1>2, <2>1
    <2>3. QED
      BY <2>2 DEF ChokedFirst
  <1>5. ClearSettled(t, b, a)
    BY <1>1, <1>2 DEF Fit, ClearSettled
  <1>6. BlockFits(t, a) /\ CheckedFits(t, b, a)
    BY <1>1, <1>2 DEF Fit, BlockFits, CheckedFits
  <1>7. AnswersFit(t, a, H) /\ ChosenNew(t, b, a, ch, wr)
    BY <1>1, <1>2 DEF Fit, AnswersFit, ChosenNew
  <1>8. RoomLeft(t, b, a, wr)
    <2>1. Coming(t, b, a.piece) => Coming(s, b, a.piece)
      BY <1>1, <1>2 DEF Coming
    <2>2. QED
      BY <2>1 DEF Fit, RoomLeft
  <1>9. Fit(t, b, a, FALSE, ch, wr, H)
    BY <1>3, <1>4, <1>5, <1>6, <1>7, <1>8 DEF Fit
  <1>10. QED
    BY <1>9 DEF t

LEMMA AnswerFit ==
    ASSUME NEW s \in Seq(Handler), NEW b, NEW a \in ActiveSet, NEW ch, NEW wr, NEW H,
           NEW i \in Pieces, NEW c \in Nat, NEW g \in BOOLEAN,
           <<i, c>> \in wr, c < Served(i), Fit(s, b, a, TRUE, ch, wr, H)
    PROVE  Fit(Append(s, PieceMsg(i, c, g)), b, a, FALSE, ch, wr \ {<<i, c>>}, H)
  <1> DEFINE m == PieceMsg(i, c, g)
             t == Append(s, m)
             left == wr \ {<<i, c>>}
  <1>1. m \in Handler /\ m.kind = "piece" /\ m.piece = i /\ m.block = c
    BY HandlerTypes DEF PieceMsg
  <1>2. /\ Len(s) \in Nat /\ Len(t) = Len(s) + 1 /\ t[Len(s) + 1] = m
        /\ \A n \in 1 .. Len(s) : t[n] = s[n]
    BY <1>1, AppendProps
  <1>3. /\ Asked(wr, i) # {}
        /\ Cardinality(Asked(left, i)) = Cardinality(Asked(wr, i)) - 1
        /\ \A j \in Pieces : j # i => Asked(left, j) = Asked(wr, j)
        /\ \A j \in Pieces : Asked(left, j) \subseteq Asked(wr, j)
    BY AskedAnswered
  <1>4. i \in H \/ i = a.piece
    BY <1>3 DEF Fit, AskedFit
  <1> HIDE DEF t, m, left
  <1>5. NoTimers(t) /\ CancelsDone(t, H)
    BY <1>1, <1>2 DEF Fit, NoTimers, CancelsDone
  <1>6. ChokedFirst(t, b, FALSE, ch)
    <2>1. \A n \in 1 .. Len(s) : s[n].kind # "Choked"
      BY DEF Fit, ChokedFirst
    <2>2. \A n \in 1 .. Len(t) : t[n].kind # "Choked"
      BY <1>1, <1>2, <2>1
    <2>3. QED
      BY <2>2 DEF ChokedFirst
  <1>7. ClearSettled(t, b, a)
    BY <1>1, <1>2 DEF Fit, ClearSettled
  <1>8. BlockFits(t, a) /\ CheckedFits(t, b, a)
    <2>1. BlockFits(t, a)
      BY <1>1, <1>2 DEF Fit, BlockFits
    <2>2. CheckedFits(t, b, a)
      BY <1>1, <1>2 DEF Fit, CheckedFits
    <2>3. QED
      BY <2>1, <2>2
  <1>9. AnswersFit(t, a, H)
    <2>1. c < BlockCount[i]
      BY ServedFacts
    <2>2. QED
      BY <1>1, <1>2, <1>4, <2>1 DEF Fit, AnswersFit
  <1>10. AskedFit(a, left, H) /\ (ch => left = {})
    <2>1. AskedFit(a, left, H)
      BY <1>3 DEF Fit, AskedFit
    <2>2. ch => left = {}
      BY DEF Fit, left
    <2>3. QED
      BY <2>1, <2>2
  <1>11. ChosenNew(t, b, a, ch, left)
    <2> SUFFICES ASSUME b.at = "chosen"
                 PROVE  /\ a.piece = NoPiece /\ ~ch /\ Asked(left, b.msg.piece) = {}
                        /\ \A n \in 1 .. Len(t) : t[n].kind = "piece" => t[n].piece # b.msg.piece
      BY DEF ChosenNew
    <2>1. /\ a.piece = NoPiece /\ ~ch /\ Asked(wr, b.msg.piece) = {}
          /\ \A n \in 1 .. Len(s) : s[n].kind = "piece" => s[n].piece # b.msg.piece
      BY DEF Fit, ChosenNew
    <2>2. i # b.msg.piece
      BY <2>1, <1>3
    <2>3. Asked(left, b.msg.piece) = {}
      BY <2>1 DEF Asked, left
    <2>4. \A n \in 1 .. Len(t) : t[n].kind = "piece" => t[n].piece # b.msg.piece
      BY <1>1, <1>2, <2>1, <2>2
    <2>5. QED
      BY <2>1, <2>3, <2>4
  <1>12. RoomLeft(t, b, a, left)
    <2> SUFFICES ASSUME a.piece # NoPiece
                 PROVE  /\ Len(a.blocks) = BlockCount[a.piece]
                        /\ Expected(a, left) <= a.begin /\ Expected(a, left) <= BlockCount[a.piece]
                        /\ Coming(t, b, a.piece) => Expected(a, left) < a.begin /\ Expected(a, left) < BlockCount[a.piece]
      BY DEF RoomLeft
    <2>1. /\ Len(a.blocks) = BlockCount[a.piece]
          /\ Expected(a, wr) <= a.begin /\ Expected(a, wr) <= BlockCount[a.piece]
          /\ Coming(s, b, a.piece) => Expected(a, wr) < a.begin /\ Expected(a, wr) < BlockCount[a.piece]
      BY DEF Fit, RoomLeft
    <2>2. /\ a.piece \in Pieces /\ a.begin \in Nat /\ a.count \in Nat /\ BlockCount[a.piece] \in Nat
          /\ Cardinality(Asked(wr, a.piece)) \in Nat
      BY AskedFinite, BlockCountAssumption DEF ActiveSet, Content
    <2>3. CASE a.piece = i
      <3>1. Expected(a, left) = Expected(a, wr) - 1 /\ Expected(a, wr) \in Nat
        <4>1. Cardinality(Asked(left, a.piece)) = Cardinality(Asked(wr, a.piece)) - 1
          BY <1>3, <2>3, Zenon
        <4> HIDE DEF left
        <4>2. /\ Expected(a, left) = a.count + Cardinality(Asked(left, a.piece))
              /\ Expected(a, wr) = a.count + Cardinality(Asked(wr, a.piece))
          BY DEF Expected
        <4>3. QED
          BY <2>2, <4>1, <4>2
      <3>2. QED
        BY <2>1, <2>2, <3>1
    <2>4. CASE a.piece # i
      <3>1. Expected(a, left) = Expected(a, wr)
        BY <1>3, <2>2, <2>4 DEF Expected
      <3>2. Coming(t, b, a.piece) => Coming(s, b, a.piece)
        BY <1>1, <1>2, <2>4 DEF Coming
      <3>3. QED
        BY <2>1, <3>1, <3>2
    <2>5. QED
      BY <2>3, <2>4
  <1>13. Fit(t, b, a, FALSE, ch, left, H)
    BY <1>5, <1>6, <1>7, <1>8, <1>9, <1>10, <1>11, <1>12 DEF Fit
  <1>14. QED
    BY <1>13 DEF t, m, left

\* A disconnect, and a choke, leave no request at the remote.
LEMMA DropFit ==
    ASSUME NEW s, NEW b, NEW a \in ActiveSet, NEW rd, NEW ch, NEW wr, NEW H, Fit(s, b, a, rd, ch, wr, H)
    PROVE  Fit(s, b, a, FALSE, ch, {}, H)
  <1>1. ChokedFirst(s, b, FALSE, ch)
    BY DEF Fit, ChokedFirst
  <1>2. AskedFit(a, {}, H)
    BY AskedNone DEF AskedFit
  <1>3. ChosenNew(s, b, a, ch, {})
    BY AskedNone DEF Fit, ChosenNew
  <1>4. RoomLeft(s, b, a, {})
    <2> SUFFICES ASSUME a.piece # NoPiece
                 PROVE  /\ Expected(a, {}) <= Expected(a, wr) /\ Expected(a, {}) \in Nat /\ Expected(a, wr) \in Nat
                        /\ a.begin \in Nat /\ BlockCount[a.piece] \in Nat
      BY DEF Fit, RoomLeft
    <2>1. /\ a.piece \in Pieces /\ a.begin \in Nat /\ a.count \in Nat /\ BlockCount[a.piece] \in Nat
          /\ Cardinality(Asked(wr, a.piece)) \in Nat
      BY AskedFinite, BlockCountAssumption DEF ActiveSet, Content
    <2>2. Cardinality(Asked({}, a.piece)) = 0
      BY <2>1, AskedNone, AskedFinite
    <2>3. QED
      BY <2>1, <2>2 DEF Expected
  <1>5. QED
    BY <1>1, <1>2, <1>3, <1>4 DEF Fit

-----------------------------------------------------------------------------
(* Messages. *)

LEMMA SeqFacts ==
    ASSUME NEW s \in Seq(Handler), s # <<>>
    PROVE  /\ Len(s) \in Nat /\ Len(Tail(s)) \in Nat /\ 1 \in 1 .. Len(s) /\ Head(s) = s[1]
           /\ Tail(s) \in Seq(Handler) /\ Head(s) \in Handler
           /\ \A n \in 1 .. Len(Tail(s)) : n + 1 \in 1 .. Len(s) /\ n + 1 > 1 /\ Tail(s)[n] = s[n + 1]
  BY TailProps

\* Behind a message there is neither Clear nor Choked.
LEMMA BehindMessage ==
    ASSUME NEW s \in Seq(Handler), s # <<>>, NEW b, NEW a, NEW rd, NEW ch, NEW wr, NEW H,
           Fit(s, b, a, rd, ch, wr, H), Head(s).kind \in MessageKinds
    PROVE  \A n \in 1 .. Len(Tail(s)) : Tail(s)[n].kind \notin {"Clear", "Choked"}
  <1> DEFINE t == Tail(s)
  <1>1. /\ Len(s) \in Nat /\ Len(t) \in Nat /\ 1 \in 1 .. Len(s) /\ Head(s) = s[1]
        /\ \A n \in 1 .. Len(t) : n + 1 \in 1 .. Len(s) /\ n + 1 > 1 /\ t[n] = s[n + 1]
    BY SeqFacts
  <1> HIDE DEF t
  <1>2. \A n \in 1 .. Len(s) : s[n].kind # "Clear" \/ 1 > n
    BY <1>1 DEF Fit, ClearSettled
  <1>3. \A n \in 1 .. Len(s) : s[n].kind # "Choked" \/ 1 > n
    BY <1>1 DEF Fit, ChokedFirst, Link
  <1>4. \A n \in 1 .. Len(t) : t[n].kind \notin {"Clear", "Choked"}
    BY <1>1, <1>2, <1>3
  <1>5. QED
    BY <1>4 DEF t

\* TryToRequestPiece is called, with no Clear to come or with an active piece.
LEMMA TryFit ==
    ASSUME NEW s, NEW b, NEW a, NEW rd, NEW ch, NEW wr, NEW H, NEW r,
           Fit(s, b, a, rd, ch, wr, H), b.at = "idle",
           (\A n \in 1 .. Len(s) : s[n].kind # "Clear") \/ a.piece # NoPiece
    PROVE  Fit(s, CallTry(r), a, rd, ch, wr, H)
  <1>1. CallTry(r).at = "try"
    BY DEF CallTry, Rest
  <1>2. ChokedFirst(s, CallTry(r), rd, ch)
    BY <1>1 DEF Fit, ChokedFirst
  <1>3. ClearSettled(s, CallTry(r), a)
    BY <1>1 DEF Fit, ClearSettled
  <1>4. CheckedFits(s, CallTry(r), a) /\ ChosenNew(s, CallTry(r), a, ch, wr)
    BY <1>1 DEF CheckedFits, ChosenNew
  <1>5. RoomLeft(s, CallTry(r), a, wr)
    <2>1. Coming(s, CallTry(r), a.piece) => Coming(s, b, a.piece)
      BY <1>1 DEF Coming
    <2>2. QED
      BY <2>1 DEF Fit, RoomLeft
  <1>6. QED
    BY <1>2, <1>3, <1>4, <1>5 DEF Fit

\* A message, an unchoke too, after which TryToRequestPiece is called.
LEMMA MessageFit ==
    ASSUME NEW s \in Seq(Handler), s # <<>>, NEW a, NEW rd, NEW ch, NEW new, NEW wr, NEW H,
           Fit(s, Idle, a, rd, ch, wr, H), Head(s).kind \in MessageKinds, new = ch \/ new = FALSE
    PROVE  Fit(Tail(s), CallTry(TRUE), a, rd, new, wr, H)
  <1> DEFINE t == Tail(s)
  <1>1. \A n \in 1 .. Len(t) : t[n].kind \notin {"Clear", "Choked"}
    BY BehindMessage
  <1>2. Fit(t, Idle, a, rd, ch, wr, H)
    BY PopFit
  <1> HIDE DEF t
  <1>3. Idle.at = "idle"
    BY DEF Idle, Rest
  <1>4. Fit(t, Idle, a, rd, new, wr, H)
    <2>1. ChokedFirst(t, Idle, rd, new)
      BY <1>1 DEF ChokedFirst
    <2>2. ChosenNew(t, Idle, a, new, wr)
      BY <1>3 DEF ChosenNew
    <2>3. QED
      BY <1>2, <2>1, <2>2 DEF Fit
  <1>5. Fit(t, CallTry(TRUE), a, rd, new, wr, H)
    BY <1>1, <1>3, <1>4, TryFit
  <1>6. QED
    BY <1>5 DEF t

LEMMA ChokeFit ==
    ASSUME NEW s \in Seq(Handler), s # <<>>, NEW a \in ActiveSet, NEW ch, NEW wr, NEW H,
           Fit(s, Idle, a, FALSE, ch, wr, H), Head(s).kind = "choke", Ordered(s)
    PROVE  Fit(Append(Tail(s), Signal("Choked")), Idle, a, FALSE, TRUE, {}, H)
  <1> DEFINE t == Tail(s)
             h == Signal("Choked")
             u == Append(t, h)
  <1>1. /\ Len(s) \in Nat /\ Len(t) \in Nat /\ 1 \in 1 .. Len(s) /\ Head(s) = s[1] /\ t \in Seq(Handler)
        /\ \A n \in 1 .. Len(t) : n + 1 \in 1 .. Len(s) /\ n + 1 > 1 /\ t[n] = s[n + 1]
    BY SeqFacts
  <1>2. Fit(t, Idle, a, FALSE, ch, {}, H)
    BY PopFit, DropFit
  <1>3. h \in Handler /\ h.kind = "Choked"
    BY HandlerTypes DEF SignalKinds, Signal, Post
  <1> HIDE DEF t, h
  <1>4. \A n \in 1 .. Len(t) : ~Link(t[n]) /\ t[n].kind # "Block"
    <2>1. Link(s[1]) /\ s[1].kind # "Read"
      BY <1>1 DEF Link, MessageKinds
    <2>2. \A n \in 1 .. Len(s) : n # 1 => ~Link(s[n])
      BY <1>1, <2>1 DEF Ordered
    <2>3. \A n \in 1 .. Len(s) : s[n].kind # "Block"
      BY <1>1, <2>1 DEF Ordered
    <2>4. \A n \in 1 .. Len(t) : n + 1 \in 1 .. Len(s) /\ n + 1 # 1
      BY <1>1
    <2>5. \A n \in 1 .. Len(t) : ~Link(s[n + 1]) /\ s[n + 1].kind # "Block"
      BY <2>2, <2>3, <2>4, Zenon
    <2>6. QED
      BY <1>1, <2>5, Zenon
  <1>5. /\ Len(u) = Len(t) + 1 /\ u[Len(t) + 1] = h
        /\ \A n \in 1 .. Len(t) : u[n] = t[n]
    BY <1>1, <1>3, AppendProps
  <1>6. Idle.at = "idle"
    BY DEF Idle, Rest
  <1> HIDE DEF u
  <1>7. NoTimers(u) /\ CancelsDone(u, H)
    <2>1. NoTimers(u)
      BY <1>1, <1>2, <1>3, <1>5 DEF Fit, NoTimers
    <2>2. CancelsDone(u, H)
      BY <1>1, <1>2, <1>3, <1>5 DEF Fit, CancelsDone
    <2>3. QED
      BY <2>1, <2>2
  <1>8. ChokedFirst(u, Idle, FALSE, TRUE)
    <2>1. \A m \in 1 .. Len(u) : ~Link(u[m]) /\ u[m].kind # "Block"
      BY <1>1, <1>3, <1>4, <1>5 DEF Link, MessageKinds
    <2>2. QED
      BY <1>6, <2>1 DEF ChokedFirst
  <1>9. ClearSettled(u, Idle, a)
    BY <1>1, <1>2, <1>3, <1>5 DEF Fit, ClearSettled, MessageKinds
  <1>10. BlockFits(u, a) /\ CheckedFits(u, Idle, a) /\ ChosenNew(u, Idle, a, TRUE, {})
    <2>1. \A n \in 1 .. Len(u) : u[n].kind # "Block"
      BY <1>1, <1>3, <1>4, <1>5
    <2>2. BlockFits(u, a)
      BY <2>1 DEF BlockFits
    <2>3. QED
      BY <1>6, <2>2 DEF CheckedFits, ChosenNew
  <1>11. AnswersFit(u, a, H)
    BY <1>1, <1>2, <1>3, <1>5 DEF Fit, AnswersFit
  <1>12. RoomLeft(u, Idle, a, {})
    <2>1. Coming(u, Idle, a.piece) => Coming(t, Idle, a.piece)
      BY <1>1, <1>3, <1>5, <1>6 DEF Coming
    <2>2. QED
      BY <1>2, <2>1 DEF Fit, RoomLeft
  <1>13. AskedFit(a, {}, H)
    BY <1>2 DEF Fit
  <1>14. Fit(u, Idle, a, FALSE, TRUE, {}, H)
    BY <1>7, <1>8, <1>9, <1>10, <1>11, <1>12, <1>13 DEF Fit
  <1>15. QED
    BY <1>14 DEF u, t, h

\* A block of a piece that is not done passes the tests of OnPieceBlock.
LEMMA AcceptFit ==
    ASSUME NEW s \in Seq(Handler), s # <<>>, NEW a, NEW rd, NEW ch, NEW wr, NEW H,
           Fit(s, Idle, a, rd, ch, wr, H), Head(s).kind = "piece", Head(s).piece \notin H
    PROVE  Fit(Tail(s), Rest("checked", Head(s), TRUE), a, rd, ch, wr, H)
  <1> DEFINE t == Tail(s)
             b == Rest("checked", Head(s), TRUE)
  <1>1. /\ 1 \in 1 .. Len(s) /\ Head(s) = s[1]
    BY SeqFacts
  <1>2. \A n \in 1 .. Len(t) : t[n].kind \notin {"Clear", "Choked"}
    BY BehindMessage DEF MessageKinds
  <1>3. Fit(t, Idle, a, rd, ch, wr, H)
    BY PopFit
  <1>4. b.at = "checked" /\ b.msg = s[1]
    BY <1>1 DEF Rest
  <1> HIDE DEF t, b
  <1>5. s[1].piece = a.piece /\ s[1].block < BlockCount[a.piece] /\ a.piece \notin H
    BY <1>1 DEF Fit, AnswersFit
  <1>6. ChokedFirst(t, b, rd, ch) /\ ClearSettled(t, b, a)
    BY <1>2 DEF ChokedFirst, ClearSettled
  <1>7. CheckedFits(t, b, a)
    BY <1>3, <1>4, <1>5 DEF Fit, CancelsDone, CheckedFits
  <1>8. ChosenNew(t, b, a, ch, wr)
    BY <1>4 DEF ChosenNew
  <1>9. RoomLeft(t, b, a, wr)
    <2>1. Coming(s, Idle, a.piece)
      BY <1>1, <1>5 DEF Coming
    <2>2. QED
      BY <2>1 DEF Fit, RoomLeft
  <1>10. Fit(t, b, a, rd, ch, wr, H)
    BY <1>3, <1>6, <1>7, <1>8, <1>9 DEF Fit
  <1>11. QED
    BY <1>10 DEF t, b

\* Its lambda is posted.
LEMMA PostBlockFit ==
    ASSUME NEW s \in Seq(Handler), NEW b \in BusySet, NEW a, NEW rd, NEW ch, NEW wr, NEW H,
           Fit(s, b, a, rd, ch, wr, H), b.at = "checked", Clean(s)
    PROVE  /\ Append(s, [b.msg EXCEPT !.kind = "Block"]) \in Seq(Handler)
           /\ Fit(Append(s, [b.msg EXCEPT !.kind = "Block"]), Idle, a, rd, ch, wr, H)
  <1> DEFINE h == [b.msg EXCEPT !.kind = "Block"]
             u == Append(s, h)
  <1>1. h \in Handler /\ h.kind = "Block" /\ h.piece = b.msg.piece /\ h.block = b.msg.block
    <2>1. b.msg \in Handler /\ b.msg.kind = "piece"
      BY BusyFields
    <2>2. QED
      BY <2>1, HandlerTypes DEF PieceKinds, Handler
  <1>2. /\ u \in Seq(Handler) /\ Len(s) \in Nat /\ Len(u) = Len(s) + 1 /\ u[Len(s) + 1] = h
        /\ \A n \in 1 .. Len(s) : u[n] = s[n]
    BY <1>1, AppendProps
  <1>3. Idle.at = "idle"
    BY DEF Idle, Rest
  <1> HIDE DEF u, h
  <1>4. \A n \in 1 .. Len(s) : s[n].kind \notin {"Block", "Clear", "Choked", "piece"}
    BY DEF Fit, ChokedFirst, ClearSettled, Clean, Plain, Link, MessageKinds
  <1>5. \A n \in 1 .. Len(u) : u[n].kind \notin {"Clear", "Choked", "piece"}
    BY <1>1, <1>2, <1>4
  <1>6. ChokedFirst(u, Idle, rd, ch) /\ ClearSettled(u, Idle, a) /\ AnswersFit(u, a, H)
    BY <1>5 DEF ChokedFirst, ClearSettled, AnswersFit
  <1>7. NoTimers(u) /\ CancelsDone(u, H)
    BY <1>1, <1>2 DEF Fit, NoTimers, CancelsDone
  <1>8. CheckedFits(u, Idle, a) /\ ChosenNew(u, Idle, a, ch, wr)
    BY <1>3 DEF CheckedFits, ChosenNew
  <1>9. BlockFits(u, a)
    <2>1. /\ b.msg.piece = a.piece /\ b.msg.block < BlockCount[a.piece]
          /\ \A n \in 1 .. Len(s) : s[n].kind = "Cancel" => s[n].piece # a.piece
      BY DEF Fit, CheckedFits
    <2>2. \A n \in 1 .. Len(u) : u[n].kind = "Block" => n = Len(s) + 1
      BY <1>2, <1>4
    <2>3. \A n \in 1 .. Len(u) : u[n].kind = "Cancel" => u[n].piece # a.piece
      BY <1>1, <1>2, <2>1
    <2>4. QED
      BY <1>1, <1>2, <2>1, <2>2, <2>3 DEF BlockFits
  <1>10. RoomLeft(u, Idle, a, wr)
    <2>1. Coming(s, b, a.piece)
      BY DEF Fit, CheckedFits, Coming
    <2>2. QED
      BY <2>1 DEF Fit, RoomLeft
  <1>11. Fit(u, Idle, a, rd, ch, wr, H)
    BY <1>6, <1>7, <1>8, <1>9, <1>10 DEF Fit
  <1>12. QED
    BY <1>2, <1>11 DEF u, h

-----------------------------------------------------------------------------
(* Posted handlers. *)

LEMMA ReadFit ==
    ASSUME NEW s \in Seq(Handler), s # <<>>, NEW b, NEW a, NEW rd, NEW new, NEW ch, NEW wr, NEW H,
           Fit(s, b, a, rd, ch, wr, H), Head(s).kind = "Read"
    PROVE  Fit(Tail(s), b, a, new, ch, wr, H)
  <1> DEFINE t == Tail(s)
  <1>1. /\ Len(s) \in Nat /\ Len(t) \in Nat /\ 1 \in 1 .. Len(s) /\ Head(s) = s[1]
        /\ \A n \in 1 .. Len(t) : n + 1 \in 1 .. Len(s) /\ n + 1 > 1 /\ t[n] = s[n + 1]
    BY SeqFacts
  <1>2. Fit(t, b, a, rd, ch, wr, H)
    BY PopFit
  <1> HIDE DEF t
  <1>3. \A n \in 1 .. Len(s) : s[n].kind # "Choked"
    BY <1>1 DEF Fit, ChokedFirst, Link
  <1>4. \A n \in 1 .. Len(t) : t[n].kind # "Choked"
    BY <1>1, <1>3
  <1>5. ChokedFirst(t, b, new, ch)
    BY <1>4 DEF ChokedFirst
  <1>6. Fit(t, b, a, new, ch, wr, H)
    BY <1>2, <1>5 DEF Fit
  <1>7. QED
    BY <1>6 DEF t

\* The active piece is dropped when no answer for a piece not done can come.
LEMMA NoActiveFit ==
    ASSUME NEW s, NEW a, NEW rd, NEW ch, NEW wr, NEW H, Fit(s, Idle, a, rd, ch, wr, H),
           \A n \in 1 .. Len(s) : s[n].kind # "Block",
           \A n \in 1 .. Len(s) : s[n].kind = "piece" => s[n].piece \in H,
           \A i \in Pieces : Asked(wr, i) # {} => i \in H
    PROVE  Fit(s, Idle, NoActive, rd, ch, wr, H)
  <1>1. Idle.at = "idle" /\ NoActive.piece = NoPiece
    BY DEF Idle, Rest, NoActive
  <1>2. ClearSettled(s, Idle, NoActive)
    BY <1>1 DEF Fit, ClearSettled
  <1>3. BlockFits(s, NoActive) /\ CheckedFits(s, Idle, NoActive) /\ ChosenNew(s, Idle, NoActive, ch, wr)
    BY <1>1 DEF BlockFits, CheckedFits, ChosenNew
  <1>4. AnswersFit(s, NoActive, H)
    BY DEF Fit, AnswersFit
  <1>5. AskedFit(NoActive, wr, H) /\ RoomLeft(s, Idle, NoActive, wr)
    BY <1>1 DEF AskedFit, RoomLeft
  <1>6. QED
    BY <1>2, <1>3, <1>4, <1>5 DEF Fit

LEMMA ChokedFit ==
    ASSUME NEW s \in Seq(Handler), s # <<>>, NEW a, NEW rd, NEW ch, NEW wr, NEW H,
           Fit(s, Idle, a, rd, ch, wr, H), Head(s).kind = "Choked"
    PROVE  Fit(Tail(s), Idle, NoActive, rd, ch, wr, H)
  <1> DEFINE t == Tail(s)
  <1>1. /\ Len(s) \in Nat /\ Len(t) \in Nat /\ 1 \in 1 .. Len(s) /\ Head(s) = s[1]
        /\ \A n \in 1 .. Len(t) : n + 1 \in 1 .. Len(s) /\ n + 1 > 1 /\ t[n] = s[n + 1]
    BY SeqFacts
  <1>2. Fit(t, Idle, a, rd, ch, wr, H)
    BY PopFit
  <1> HIDE DEF t
  <1>3. \A n \in 1 .. Len(s) : s[n].kind \notin {"Block", "piece"}
    BY <1>1 DEF Fit, ChokedFirst, Link, MessageKinds
  <1>4. \A n \in 1 .. Len(t) : t[n].kind \notin {"Block", "piece"}
    BY <1>1, <1>3
  <1>5. wr = {}
    BY <1>1 DEF Fit, ChokedFirst
  <1>6. Fit(t, Idle, NoActive, rd, ch, wr, H)
    BY <1>2, <1>4, <1>5, AskedNone, NoActiveFit
  <1>7. QED
    BY <1>6 DEF t

\* A complete piece has no answer to come.
LEMMA CompleteFit ==
    ASSUME NEW s, NEW b, NEW a \in ActiveSet, NEW rd, NEW ch, NEW wr, NEW H, Fit(s, b, a, rd, ch, wr, H),
           a.piece # NoPiece, a.count = BlockCount[a.piece]
    PROVE  ~Coming(s, b, a.piece) /\ Asked(wr, a.piece) = {}
  <1>1. /\ a.piece \in Pieces /\ a.begin \in Nat /\ a.count \in Nat /\ BlockCount[a.piece] \in Nat
        /\ Cardinality(Asked(wr, a.piece)) \in Nat
    BY AskedFinite, BlockCountAssumption DEF ActiveSet, Content
  <1>2. /\ Expected(a, wr) <= BlockCount[a.piece]
        /\ Coming(s, b, a.piece) => Expected(a, wr) < BlockCount[a.piece]
    BY DEF Fit, RoomLeft
  <1>3. Cardinality(Asked(wr, a.piece)) = 0 /\ ~Coming(s, b, a.piece)
    BY <1>1, <1>2 DEF Expected
  <1>4. QED
    BY <1>1, <1>3, AskedFinite

LEMMA ClearFit ==
    ASSUME NEW s \in Seq(Handler), s # <<>>, NEW a \in ActiveSet, NEW rd, NEW ch, NEW wr, NEW H,
           Fit(s, Idle, a, rd, ch, wr, H), Head(s).kind = "Clear"
    PROVE  /\ Fit(Tail(s), CallTry(FALSE), NoActive, rd, ch, wr, H)
           /\ \A n \in 1 .. Len(Tail(s)) : Tail(s)[n].kind # "Clear"
  <1> DEFINE t == Tail(s)
  <1>1. /\ Len(s) \in Nat /\ Len(t) \in Nat /\ 1 \in 1 .. Len(s) /\ Head(s) = s[1] /\ t \in Seq(Handler)
        /\ \A n \in 1 .. Len(t) : n + 1 \in 1 .. Len(s) /\ n + 1 > 1 /\ t[n] = s[n + 1]
    BY SeqFacts
  <1>2. Fit(t, Idle, a, rd, ch, wr, H)
    BY PopFit
  <1> HIDE DEF t
  <1>3. \A n \in 1 .. Len(s) : s[n].kind # "Block" /\ (s[n].kind = "Clear" => n = 1)
    BY <1>1 DEF Fit, ClearSettled
  <1>4. \A n \in 1 .. Len(t) : t[n].kind # "Block" /\ t[n].kind # "Clear"
    BY <1>1, <1>3
  <1>5. a.piece = NoPiece \/ a.count = BlockCount[a.piece]
    BY <1>1 DEF Fit, ClearSettled
  <1>6. \A n \in 1 .. Len(t) : t[n].kind = "piece" => t[n].piece \in H
    <2> SUFFICES ASSUME NEW n \in 1 .. Len(t), t[n].kind = "piece", t[n].piece \notin H
                 PROVE  FALSE
      OBVIOUS
    <2>1. t[n].piece = a.piece
      BY <1>2 DEF Fit, AnswersFit
    <2>2. t[n] \in Handler
      BY <1>1
    <2>3. t[n].piece \in Pieces
      BY <2>2, HandlerTypes DEF PieceKinds
    <2>4. a.piece # NoPiece
      BY <2>1, <2>3, PiecesAssumption
    <2>5. Coming(t, Idle, a.piece)
      BY <2>1 DEF Coming
    <2>6. QED
      BY <1>2, <1>5, <2>4, <2>5, CompleteFit
  <1>7. \A i \in Pieces : Asked(wr, i) # {} => i \in H
    <2> SUFFICES ASSUME NEW i \in Pieces, Asked(wr, i) # {}, i \notin H
                 PROVE  FALSE
      OBVIOUS
    <2>1. i = a.piece
      BY <1>2 DEF Fit, AskedFit
    <2>2. a.piece # NoPiece
      BY <2>1, PiecesAssumption
    <2>3. QED
      BY <1>2, <1>5, <2>1, <2>2, CompleteFit
  <1>8. Fit(t, Idle, NoActive, rd, ch, wr, H)
    BY <1>2, <1>4, <1>6, <1>7, NoActiveFit
  <1>9. Fit(t, CallTry(FALSE), NoActive, rd, ch, wr, H)
    <2>1. Idle.at = "idle"
      BY DEF Idle, Rest
    <2>2. \A n \in 1 .. Len(t) : t[n].kind # "Clear"
      BY <1>4
    <2>3. QED
      BY <1>8, <2>1, <2>2, TryFit
  <1>10. QED
    BY <1>4, <1>9 DEF t

LEMMA CancelFit ==
    ASSUME NEW s \in Seq(Handler), s # <<>>, NEW a, NEW rd, NEW ch, NEW wr, NEW H,
           Fit(s, Idle, a, rd, ch, wr, H), Head(s).kind = "Cancel"
    PROVE  /\ Head(s).piece \in H
           /\ Fit(Tail(s), Idle, IF a.piece = Head(s).piece THEN NoActive ELSE a, rd, ch, wr, H)
  <1> DEFINE t == Tail(s)
  <1>1. /\ Len(s) \in Nat /\ Len(t) \in Nat /\ 1 \in 1 .. Len(s) /\ Head(s) = s[1]
        /\ \A n \in 1 .. Len(t) : n + 1 \in 1 .. Len(s) /\ n + 1 > 1 /\ t[n] = s[n + 1]
    BY SeqFacts
  <1>2. Fit(t, Idle, a, rd, ch, wr, H)
    BY PopFit
  <1> HIDE DEF t
  <1>3. s[1].piece \in H
    BY <1>1 DEF Fit, CancelsDone
  <1>4. ASSUME a.piece = s[1].piece PROVE Fit(t, Idle, NoActive, rd, ch, wr, H)
    <2>1. \A n \in 1 .. Len(s) : s[n].kind # "Block"
      BY <1>1, <1>4 DEF Fit, BlockFits
    <2>2. \A n \in 1 .. Len(t) : t[n].kind # "Block"
      BY <1>1, <2>1
    <2>3. \A n \in 1 .. Len(t) : t[n].kind = "piece" => t[n].piece \in H
      BY <1>2, <1>3, <1>4 DEF Fit, AnswersFit
    <2>4. \A i \in Pieces : Asked(wr, i) # {} => i \in H
      BY <1>2, <1>3, <1>4 DEF Fit, AskedFit
    <2>5. QED
      BY <1>2, <2>2, <2>3, <2>4, NoActiveFit
  <1>5. QED
    BY <1>1, <1>2, <1>3, <1>4 DEF t

LEMMA CancelCheckFit ==
    ASSUME NEW s \in Seq(Handler), s # <<>>, NEW a, NEW rd, NEW ch, NEW wr, NEW H,
           Fit(s, Idle, a, rd, ch, wr, H), Head(s).kind = "CancelCheck", a.piece = Head(s).piece
    PROVE  Fit(Append(Tail(s), Post("Cancel", a.piece)), CallTry(FALSE), a, rd, ch, wr, H)
  <1> DEFINE t == Tail(s)
             h == Post("Cancel", a.piece)
  <1>1. 1 \in 1 .. Len(s) /\ Head(s) = s[1] /\ Head(s) \in Handler /\ t \in Seq(Handler)
    BY SeqFacts
  <1>2. Fit(t, Idle, a, rd, ch, wr, H)
    BY PopFit
  <1>3. a.piece \in Pieces
    BY <1>1, HandlerTypes DEF PieceKinds
  <1>4. h \in Handler /\ h.kind = "Cancel" /\ h.piece = a.piece
    BY <1>3, HandlerTypes DEF PieceKinds, Post
  <1>5. a.piece \in H
    BY <1>1 DEF Fit, CancelsDone
  <1>6. Idle.at = "idle"
    BY DEF Idle, Rest
  <1> HIDE DEF t, h
  <1>7. Fit(Append(t, h), Idle, a, rd, ch, wr, H)
    BY <1>1, <1>2, <1>4, <1>5, <1>6, PushFit
  <1>8. Fit(Append(t, h), CallTry(FALSE), a, rd, ch, wr, H)
    BY <1>3, <1>6, <1>7, TryFit, PiecesAssumption
  <1>9. QED
    BY <1>8 DEF t, h

\* The lambda of OnPieceBlock finds its piece and stores the block.
LEMMA StoreFit ==
    ASSUME NEW s \in Seq(Handler), s # <<>>, NEW a \in ActiveSet, NEW rd, NEW ch, NEW wr, NEW H, NEW x \in Content,
           Fit(s, Idle, a, rd, ch, wr, H), Head(s).kind = "Block", Ordered(s)
    PROVE  LET new == [a EXCEPT !.count = @ + 1, !.blocks = [@ EXCEPT ![Head(s).block + 1] = x]] IN
           /\ a.piece = Head(s).piece /\ a.piece \in Pieces /\ Head(s).block < Len(a.blocks)
           /\ Fit(Tail(s), Idle, new, rd, ch, wr, H)
           /\ \A n \in 1 .. Len(Tail(s)) : Tail(s)[n].kind \notin MessageKinds \cup {"Block", "Clear"}
           /\ \A n \in 1 .. Len(s) : s[n].kind # "Clear"
  <1> DEFINE t == Tail(s)
             new == [a EXCEPT !.count = @ + 1, !.blocks = [@ EXCEPT ![Head(s).block + 1] = x]]
  <1>1. /\ Len(s) \in Nat /\ Len(t) \in Nat /\ 1 \in 1 .. Len(s) /\ Head(s) = s[1] /\ s[1] \in Handler
        /\ \A n \in 1 .. Len(t) : n + 1 \in 1 .. Len(s) /\ n + 1 > 1 /\ t[n] = s[n + 1]
    BY SeqFacts
  <1>2. Fit(t, Idle, a, rd, ch, wr, H)
    BY PopFit
  <1>3. a.piece = s[1].piece /\ s[1].block < BlockCount[a.piece]
    BY <1>1 DEF Fit, BlockFits
  <1>4. a.piece \in Pieces /\ a.piece # NoPiece
    BY <1>1, <1>3, HandlerTypes, PiecesAssumption DEF PieceKinds
  <1>5. /\ Len(a.blocks) = BlockCount[a.piece]
        /\ Expected(a, wr) < a.begin /\ Expected(a, wr) < BlockCount[a.piece]
    <2>1. Coming(s, Idle, a.piece)
      BY <1>1, <1>3 DEF Coming
    <2>2. QED
      BY <1>4, <2>1 DEF Fit, RoomLeft
  <1>6. \A n \in 1 .. Len(s) : s[n].kind # "Clear"
    BY <1>1 DEF Fit, ClearSettled
  <1> HIDE DEF t
  <1>7. \A n \in 1 .. Len(t) : t[n].kind \notin MessageKinds \cup {"Block", "Clear"}
    <2>1. \A n \in 1 .. Len(s) : s[n].kind = "Block" => n = 1
      BY <1>1 DEF Fit, BlockFits
    <2>2. \A n \in 1 .. Len(s) : s[n].kind \notin MessageKinds
      BY <1>1 DEF Ordered, Link, MessageKinds
    <2>3. \A n \in 1 .. Len(t) : n + 1 \in 1 .. Len(s) /\ n + 1 # 1
      BY <1>1
    <2>4. QED
      BY <1>1, <1>6, <2>1, <2>2, <2>3, Zenon
  <1>8. /\ new.piece = a.piece /\ new.begin = a.begin /\ new.count = a.count + 1 /\ Len(new.blocks) = Len(a.blocks)
    BY DEF ActiveSet
  <1>9. Idle.at = "idle"
    BY DEF Idle, Rest
  <1> HIDE DEF new
  <1>10. Fit(t, Idle, new, rd, ch, wr, H)
    <2>1. ClearSettled(t, Idle, new) /\ BlockFits(t, new)
      BY <1>7 DEF ClearSettled, BlockFits
    <2>2. CheckedFits(t, Idle, new) /\ ChosenNew(t, Idle, new, ch, wr)
      BY <1>9 DEF CheckedFits, ChosenNew
    <2>3. AnswersFit(t, new, H) /\ AskedFit(new, wr, H)
      BY <1>2, <1>8 DEF Fit, AnswersFit, AskedFit
    <2>4. ~Coming(t, Idle, new.piece)
      BY <1>7, <1>9 DEF Coming, MessageKinds
    <2>5. /\ a.begin \in Nat /\ a.count \in Nat /\ BlockCount[a.piece] \in Nat
          /\ Cardinality(Asked(wr, a.piece)) \in Nat
      BY <1>4, AskedFinite, BlockCountAssumption DEF ActiveSet
    <2>6. Expected(new, wr) = Expected(a, wr) + 1 /\ Expected(a, wr) \in Nat
      BY <1>8, <2>5 DEF Expected
    <2>7. RoomLeft(t, Idle, new, wr)
      BY <1>5, <1>8, <2>4, <2>5, <2>6 DEF RoomLeft
    <2>8. QED
      BY <1>2, <2>1, <2>2, <2>3, <2>7 DEF Fit
  <1>11. QED
    BY <1>1, <1>3, <1>4, <1>5, <1>6, <1>7, <1>10 DEF t, new

\* The last block of a piece posts Clear.
LEMMA PostClearFit ==
    ASSUME NEW s \in Seq(Handler), NEW a, NEW rd, NEW ch, NEW wr, NEW H,
           Fit(s, Idle, a, rd, ch, wr, H), a.count = BlockCount[a.piece],
           \A n \in 1 .. Len(s) : s[n].kind \notin MessageKinds \cup {"Block", "Clear"}
    PROVE  Fit(Append(s, Signal("Clear")), Idle, a, rd, ch, wr, H)
  <1> DEFINE h == Signal("Clear")
             u == Append(s, h)
  <1>1. h \in Handler /\ h.kind = "Clear"
    BY HandlerTypes DEF SignalKinds, Signal, Post
  <1>2. /\ Len(s) \in Nat /\ Len(u) = Len(s) + 1 /\ u[Len(s) + 1] = h
        /\ \A n \in 1 .. Len(s) : u[n] = s[n]
    BY <1>1, AppendProps
  <1>3. Idle.at = "idle"
    BY DEF Idle, Rest
  <1> HIDE DEF h, u
  <1>4. \A n \in 1 .. Len(u) : u[n].kind \notin MessageKinds \cup {"Block"}
    BY <1>1, <1>2 DEF MessageKinds
  <1>5. \A n \in 1 .. Len(u) : u[n].kind = "Clear" => n = Len(s) + 1
    BY <1>2
  <1>6. NoTimers(u)
    BY <1>1, <1>2 DEF Fit, NoTimers
  <1>7. CancelsDone(u, H)
    BY <1>1, <1>2 DEF Fit, CancelsDone
  <1>8. ChokedFirst(u, Idle, rd, ch)
    BY <1>1, <1>2 DEF Fit, ChokedFirst, Link, MessageKinds
  <1>9. ClearSettled(u, Idle, a)
    BY <1>3, <1>4, <1>5 DEF ClearSettled
  <1>10. BlockFits(u, a) /\ AnswersFit(u, a, H)
    BY <1>4 DEF BlockFits, AnswersFit, MessageKinds
  <1>11. CheckedFits(u, Idle, a) /\ ChosenNew(u, Idle, a, ch, wr)
    BY <1>3 DEF CheckedFits, ChosenNew
  <1>12. RoomLeft(u, Idle, a, wr)
    <2>1. ~Coming(u, Idle, a.piece)
      BY <1>3, <1>4 DEF Coming, MessageKinds
    <2>2. QED
      BY <2>1 DEF Fit, RoomLeft
  <1>13. Fit(u, Idle, a, rd, ch, wr, H)
    BY <1>6, <1>7, <1>8, <1>9, <1>10, <1>11, <1>12 DEF Fit
  <1>14. QED
    BY <1>13 DEF u, h

-----------------------------------------------------------------------------
(* TryToRequestPiece. *)

LEMMA ChooseFit ==
    ASSUME NEW s \in Seq(Handler), NEW b, NEW a, NEW rd, NEW wr, NEW H, NEW i \in Pieces, NEW r,
           Fit(s, b, a, rd, FALSE, wr, H), b.at = "try", a.piece = NoPiece, i \notin H
    PROVE  Fit(s, Rest("chosen", Post("Try", i), r), a, rd, FALSE, wr, H)
  <1> DEFINE c == Rest("chosen", Post("Try", i), r)
  <1>1. c.at = "chosen" /\ c.msg.piece = i
    BY DEF Rest, Post
  <1> HIDE DEF c
  <1>2. i # NoPiece
    BY PiecesAssumption
  <1>3. ChokedFirst(s, c, rd, FALSE) /\ CheckedFits(s, c, a)
    BY <1>1 DEF Fit, ChokedFirst, CheckedFits
  <1>4. ClearSettled(s, c, a)
    BY DEF Fit, ClearSettled
  <1>5. ChosenNew(s, c, a, FALSE, wr)
    <2>1. Asked(wr, i) = {}
      BY <1>2 DEF Fit, AskedFit
    <2>2. \A n \in 1 .. Len(s) : s[n].kind = "piece" => s[n].piece # i
      BY <1>2 DEF Fit, AnswersFit
    <2>3. QED
      BY <1>1, <2>1, <2>2 DEF ChosenNew
  <1>6. RoomLeft(s, c, a, wr)
    BY DEF RoomLeft
  <1>7. Fit(s, c, a, rd, FALSE, wr, H)
    BY <1>3, <1>4, <1>5, <1>6 DEF Fit
  <1>8. QED
    BY <1>7 DEF c

LEMMA SentFacts ==
    ASSUME NEW a \in ActiveSet, a.piece # NoPiece
    PROVE  /\ a.piece \in Pieces /\ RequestsSent(BlockCount[a.piece]) \in Nat \ {0}
           /\ SendRequests(a).piece = a.piece /\ SendRequests(a).count = a.count /\ SendRequests(a).blocks = a.blocks
           /\ SendRequests(a).begin = IF BlockCount[a.piece] = 0 THEN a.begin ELSE a.begin + RequestsSent(BlockCount[a.piece])
           /\ RequestSet(a) = {<<a.piece, c>> : c \in a.begin .. ((a.begin + RequestsSent(BlockCount[a.piece])) - 1)}
  <1> DEFINE k == RequestsSent(BlockCount[a.piece])
             more == IF BlockCount[a.piece] = 0 THEN 0 ELSE k
  <1>1. a.piece \in Pieces /\ a.begin \in Nat
    BY DEF ActiveSet, Content
  <1>2. k \in Nat \ {0}
    BY <1>1, BlockCountAssumption, WindowAssumption DEF RequestsSent
  <1>3. RequestSet(a) = {<<a.piece, c>> : c \in a.begin .. (a.begin + (k - 1))}
    BY DEF RequestSet
  <1>6. /\ SendRequests(a).piece = a.piece /\ SendRequests(a).count = a.count /\ SendRequests(a).blocks = a.blocks
        /\ SendRequests(a).begin = a.begin + more
    <2>1. SendRequests(a) = [a EXCEPT !.begin = @ + more]
      BY DEF SendRequests
    <2> HIDE DEF more
    <2>2. QED
      BY <2>1 DEF ActiveSet
  <1> HIDE DEF k
  <1>4. a.begin + (k - 1) = (a.begin + k) - 1
    BY <1>1, <1>2
  <1>5. RequestSet(a) = {<<a.piece, c>> : c \in a.begin .. ((a.begin + k) - 1)}
    BY <1>3, <1>4, Zenon
  <1>7. a.begin + more = IF BlockCount[a.piece] = 0 THEN a.begin ELSE a.begin + k
    BY <1>1
  <1>8. QED
    BY <1>1, <1>2, <1>5, <1>6, <1>7, Zenon DEF k

\* The next requests for a are sent, or dropped.
Sent(a, wr, new) == new = wr \/ new = wr \cup RequestSet(a)

\* The requests of a window leave room for their answers.
LEMMA RoomSent ==
    ASSUME NEW s, NEW b, NEW a \in ActiveSet, a.piece # NoPiece, NEW wr, NEW new,
           RoomLeft(s, b, a, wr), Sent(a, wr, new)
    PROVE  /\ RoomLeft(s, b, SendRequests(a), new)
           /\ \A j \in Pieces : j # a.piece => Asked(new, j) = Asked(wr, j)
  <1> DEFINE k == RequestsSent(BlockCount[a.piece])
             y == a.begin + k
             more == wr \cup RequestSet(a)
  <1>1. /\ a.piece \in Pieces /\ k \in Nat
        /\ SendRequests(a).piece = a.piece /\ SendRequests(a).count = a.count /\ SendRequests(a).blocks = a.blocks
        /\ SendRequests(a).begin = IF BlockCount[a.piece] = 0 THEN a.begin ELSE a.begin + k
        /\ RequestSet(a) = {<<a.piece, c>> : c \in a.begin .. (y - 1)}
    BY SentFacts
  <1>2. /\ a.begin \in Nat /\ a.count \in Nat /\ BlockCount[a.piece] \in Nat /\ y \in Nat /\ a.begin <= y /\ y = a.begin + k
        /\ Served(a.piece) \in Nat /\ Served(a.piece) <= BlockCount[a.piece]
    BY <1>1, ServedFacts DEF ActiveSet
  <1>11. more = Widened(wr, a.piece, a.begin, y)
    BY <1>1 DEF Widened
  <1> HIDE DEF k, y, more
  <1>3. /\ Cardinality(Asked(more, a.piece)) <= Cardinality(Asked(wr, a.piece)) + (y - a.begin)
        /\ a.begin <= Served(a.piece) => Cardinality(Asked(more, a.piece)) <= Cardinality(Asked(wr, a.piece)) + (Served(a.piece) - a.begin)
        /\ a.begin >= Served(a.piece) => Asked(more, a.piece) = Asked(wr, a.piece)
        /\ \A j \in Pieces : j # a.piece => Asked(more, j) = Asked(wr, j)
    <2>1. a.piece \in Pieces /\ a.begin \in Nat /\ y \in Nat /\ a.begin <= y
      BY <1>1, <1>2
    <2> DEFINE W == Widened(wr, a.piece, a.begin, y)
    <2>2. /\ Cardinality(Asked(W, a.piece)) <= Cardinality(Asked(wr, a.piece)) + (y - a.begin)
          /\ a.begin <= Served(a.piece) => Cardinality(Asked(W, a.piece)) <= Cardinality(Asked(wr, a.piece)) + (Served(a.piece) - a.begin)
          /\ a.begin >= Served(a.piece) => Asked(W, a.piece) = Asked(wr, a.piece)
          /\ \A j \in Pieces : j # a.piece => Asked(W, j) = Asked(wr, j)
      BY <2>1, AskedMore, Zenon
    <2> HIDE DEF W
    <2>3. more = W
      BY <1>11 DEF W
    <2>4. QED
      BY <2>2, <2>3, Zenon
  <1>4. Cardinality(Asked(more, a.piece)) \in Nat /\ Cardinality(Asked(wr, a.piece)) \in Nat
    BY <1>1, AskedFinite
  <1>5. new = wr \/ new = more
    BY DEF more, Sent
  <1>6. /\ Len(a.blocks) = BlockCount[a.piece]
        /\ Expected(a, wr) <= a.begin /\ Expected(a, wr) <= BlockCount[a.piece]
        /\ Coming(s, b, a.piece) => Expected(a, wr) < a.begin /\ Expected(a, wr) < BlockCount[a.piece]
    BY DEF RoomLeft
  <1>7. Expected(SendRequests(a), new) = a.count + Cardinality(Asked(new, a.piece)) /\ Expected(a, wr) = a.count + Cardinality(Asked(wr, a.piece))
    BY <1>1 DEF Expected
  <1>8. /\ a.count + Cardinality(Asked(new, a.piece)) <= SendRequests(a).begin
        /\ a.count + Cardinality(Asked(new, a.piece)) <= BlockCount[a.piece]
        /\ Coming(s, b, a.piece) => /\ a.count + Cardinality(Asked(new, a.piece)) < SendRequests(a).begin
                                    /\ a.count + Cardinality(Asked(new, a.piece)) < BlockCount[a.piece]
    <2>1. CASE Asked(new, a.piece) = Asked(wr, a.piece)
      BY <1>1, <1>2, <1>4, <1>6, <1>7, <2>1
    <2>2. CASE new = more /\ a.begin < Served(a.piece)
      <3>1. /\ Cardinality(Asked(new, a.piece)) <= Cardinality(Asked(wr, a.piece)) + k
            /\ Cardinality(Asked(new, a.piece)) <= Cardinality(Asked(wr, a.piece)) + (Served(a.piece) - a.begin)
            /\ Cardinality(Asked(new, a.piece)) \in Nat
        BY <1>1, <1>2, <1>3, <1>4, <2>2
      <3>2. /\ a.count + Cardinality(Asked(wr, a.piece)) <= a.begin /\ a.count + Cardinality(Asked(wr, a.piece)) <= BlockCount[a.piece]
            /\ Coming(s, b, a.piece) => a.count + Cardinality(Asked(wr, a.piece)) < a.begin
        BY <1>6, <1>7
      <3>3. SendRequests(a).begin = a.begin + k
        BY <1>1, <1>2, <2>2
      <3>4. QED
        BY <1>1, <1>2, <1>4, <3>1, <3>2, <3>3
    <2>3. QED
      BY <1>2, <1>3, <1>5, <2>1, <2>2
  <1>9. RoomLeft(s, b, SendRequests(a), new)
    BY <1>1, <1>6, <1>7, <1>8 DEF RoomLeft
  <1>10. QED
    BY <1>3, <1>5, <1>9

\* The chosen piece becomes active and its first requests go out.
LEMMA RequestFit ==
    ASSUME NEW s \in Seq(Handler), NEW b \in BusySet, NEW a, NEW rd, NEW ch, NEW wr, NEW H, NEW new,
           Fit(s, b, a, rd, ch, wr, H), b.at = "chosen",
           new = wr \/ new = wr \cup RequestSet(Fresh(b.msg.piece))
    PROVE  /\ Fit(s, Idle, SendRequests(Fresh(b.msg.piece)), rd, ch, new, H)
           /\ \A n \in 1 .. Len(s) : s[n].kind # "Clear"
  <1> DEFINE i == b.msg.piece
             f == Fresh(i)
             x == SendRequests(f)
  <1>1. i \in Pieces /\ i # NoPiece
    BY BusyFields, PiecesAssumption
  <1>2. f \in ActiveSet /\ f.piece = i
    BY <1>1, FreshType
  <1>3. f.begin = 0 /\ f.count = 0 /\ Len(f.blocks) = BlockCount[i]
    BY <1>1, BlockCountAssumption DEF Fresh
  <1>4. /\ a.piece = NoPiece /\ ~ch /\ Asked(wr, i) = {}
        /\ \A n \in 1 .. Len(s) : s[n].kind = "piece" => s[n].piece # i
    BY DEF Fit, ChosenNew
  <1>5. \A n \in 1 .. Len(s) : s[n].kind # "Clear"
    BY DEF Fit, ClearSettled
  <1> HIDE DEF i, f
  <1>6. \A n \in 1 .. Len(s) : s[n].kind \in {"piece", "Block"} => s[n].piece \in Pieces
    <2>1. \A n \in 1 .. Len(s) : s[n] \in Handler
      OBVIOUS
    <2>2. QED
      BY <2>1, HandlerTypes DEF PieceKinds
  <1>7. \A n \in 1 .. Len(s) : s[n].kind # "Block"
    BY <1>4, <1>6, PiecesAssumption DEF Fit, BlockFits
  <1>8. Idle.at = "idle"
    BY DEF Idle, Rest
  <1>9. ~Coming(s, Idle, i)
    BY <1>4, <1>7, <1>8 DEF Coming
  <1>10. RoomLeft(s, Idle, f, wr)
    <2>1. Cardinality(Asked(wr, i)) = 0
      BY <1>1, <1>4, AskedFinite
    <2>2. Expected(f, wr) = 0
      BY <1>2, <1>3, <2>1 DEF Expected
    <2>3. BlockCount[i] \in Nat
      BY <1>1, BlockCountAssumption
    <2>4. QED
      BY <1>2, <1>3, <1>9, <2>2, <2>3 DEF RoomLeft
  <1>11. RoomLeft(s, Idle, x, new) /\ \A j \in Pieces : j # i => Asked(new, j) = Asked(wr, j)
    <2>1. Sent(f, wr, new)
      BY DEF Sent, f, i
    <2>2. f.piece # NoPiece
      BY <1>1, <1>2
    <2>4. RoomLeft(s, Idle, SendRequests(f), new) /\ \A j \in Pieces : j # f.piece => Asked(new, j) = Asked(wr, j)
      BY <1>2, <1>10, <2>1, <2>2, RoomSent
    <2>5. QED
      BY <1>2, <2>4
  <1>12. x.piece = i
    BY <1>1, <1>2, SentFacts
  <1> HIDE DEF x
  <1>13. ClearSettled(s, Idle, x) /\ BlockFits(s, x)
    BY <1>5, <1>7 DEF ClearSettled, BlockFits
  <1>14. CheckedFits(s, Idle, x) /\ ChosenNew(s, Idle, x, ch, new)
    BY <1>8 DEF CheckedFits, ChosenNew
  <1>15. AnswersFit(s, x, H)
    BY <1>4, <1>6, PiecesAssumption DEF Fit, AnswersFit
  <1>16. AskedFit(x, new, H)
    <2> SUFFICES ASSUME NEW j \in Pieces, Asked(new, j) # {}, j # i PROVE j \in H
      BY <1>12 DEF AskedFit
    <2>1. Asked(wr, j) # {} /\ j # a.piece
      BY <1>4, <1>11, PiecesAssumption
    <2>2. QED
      BY <2>1 DEF Fit, AskedFit
  <1>17. ChokedFirst(s, Idle, rd, ch)
    BY <1>8 DEF Fit, ChokedFirst
  <1>18. Fit(s, Idle, x, rd, ch, new, H)
    BY <1>4, <1>11, <1>13, <1>14, <1>15, <1>16, <1>17 DEF Fit
  <1>19. QED
    BY <1>5, <1>18 DEF x, f, i

\* The next requests of the active piece go out.
LEMMA ContinueFit ==
    ASSUME NEW s, NEW b, NEW a \in ActiveSet, NEW rd, NEW ch, NEW wr, NEW H, NEW new,
           Fit(s, b, a, rd, ch, wr, H), b.at = "try", a.piece # NoPiece,
           new = wr \/ (~ch /\ new = wr \cup RequestSet(a))
    PROVE  Fit(s, Idle, SendRequests(a), rd, ch, new, H)
  <1> DEFINE x == SendRequests(a)
  <1>1. x.piece = a.piece /\ x.count = a.count
    BY SentFacts
  <1>2. Fit(s, Idle, a, rd, ch, wr, H)
    BY IdleFit
  <1>3. RoomLeft(s, Idle, x, new) /\ \A j \in Pieces : j # a.piece => Asked(new, j) = Asked(wr, j)
    <2>1. RoomLeft(s, Idle, a, wr)
      BY <1>2 DEF Fit
    <2>2. Sent(a, wr, new)
      BY DEF Sent
    <2>3. QED
      BY <2>1, <2>2, RoomSent
  <1>4. Idle.at = "idle"
    BY DEF Idle, Rest
  <1> HIDE DEF x
  <1>5. ClearSettled(s, Idle, x)
    BY <1>1, <1>2 DEF Fit, ClearSettled
  <1>6. BlockFits(s, x)
    BY <1>1, <1>2 DEF Fit, BlockFits
  <1>7. CheckedFits(s, Idle, x) /\ ChosenNew(s, Idle, x, ch, new)
    BY <1>4 DEF CheckedFits, ChosenNew
  <1>8. AnswersFit(s, x, H)
    BY <1>1, <1>2 DEF Fit, AnswersFit
  <1>9. AskedFit(x, new, H)
    <2>1. \A j \in Pieces : j # a.piece => (Asked(new, j) # {} => j \in H)
      BY <1>2, <1>3 DEF Fit, AskedFit
    <2>2. QED
      BY <1>1, <2>1 DEF AskedFit
  <1>10. ch => new = {}
    BY DEF Fit
  <1>11. Fit(s, Idle, x, rd, ch, new, H)
    BY <1>2, <1>3, <1>5, <1>6, <1>7, <1>8, <1>9, <1>10 DEF Fit
  <1>12. QED
    BY <1>11 DEF x

-----------------------------------------------------------------------------
(* Steps of a client. *)

Here(q) == Fit(strand[q], busy[q], active[q], reading[q], choked[q], wire[q], have)

Everyone == \A q \in Peers : Here(q)

\* A step that changes nothing of the clients other than p.
Alone(p) ==
    /\ have' = have
    /\ \A q \in Peers \ {p} : /\ strand'[q] = strand[q] /\ busy'[q] = busy[q] /\ active'[q] = active[q]
                              /\ reading'[q] = reading[q] /\ choked'[q] = choked[q] /\ wire'[q] = wire[q]

\* What it does to p.
Becomes(p, s, b, a, rd, ch, wr) ==
    /\ strand'[p] = s /\ busy'[p] = b /\ active'[p] = a
    /\ reading'[p] = rd /\ choked'[p] = ch /\ wire'[p] = wr

LEMMA AloneFit ==
    ASSUME Everyone, NEW p \in Peers, Alone(p), NEW s, NEW b, NEW a, NEW rd, NEW ch, NEW wr,
           Becomes(p, s, b, a, rd, ch, wr), Fit(s, b, a, rd, ch, wr, have)
    PROVE  Everyone'
  <1>1. Here(p)'
    BY DEF Here, Alone, Becomes
  <1>2. ASSUME NEW q \in Peers \ {p} PROVE Here(q)'
    BY <1>2 DEF Everyone, Here, Alone
  <1>3. QED
    BY <1>1, <1>2 DEF Everyone

LEMMA ClientTypes ==
    ASSUME TypeOK, NEW p \in Peers
    PROVE  /\ strand[p] \in Seq(Handler) /\ busy[p] \in BusySet /\ active[p] \in ActiveSet
           /\ reading[p] \in BOOLEAN /\ choked[p] \in BOOLEAN /\ wire[p] \subseteq Pieces \X Nat
  BY DEF TypeOK, StrandType, PieceType, StatusType

LEMMA DeliverCalm ==
    ASSUME Calm, TypeOK, Everyone, NEW p \in Peers, NEW m \in Handler, Deliver(p, m),
           \/ m.kind \in MessageKinds \ {"piece"}
           \/ \E r \in Answerable(p), g \in BOOLEAN : m = PieceMsg(r[1], r[2], g)
    PROVE  Everyone'
  <1>1. /\ strand[p] \in Seq(Handler) /\ active[p] \in ActiveSet /\ wire[p] \subseteq Pieces \X Nat
        /\ reading[p] = TRUE
    BY ClientTypes DEF Deliver
  <1>2. Fit(strand[p], busy[p], active[p], TRUE, choked[p], wire[p], have)
    BY <1>1 DEF Everyone, Here
  <1>3. Alone(p)
    BY DEF TypeOK, StrandType, PieceType, StatusType, Deliver, Alone, masterVars, statusVars
  <1>4. CASE m.kind \in MessageKinds \ {"piece"}
    <2>1. Becomes(p, Append(strand[p], m), busy[p], active[p], FALSE, choked[p], wire[p])
      BY <1>4 DEF TypeOK, StrandType, PieceType, StatusType, Deliver, Becomes, masterVars, statusVars
    <2>2. Fit(Append(strand[p], m), busy[p], active[p], FALSE, choked[p], wire[p], have)
      BY <1>1, <1>2, <1>4, DeliverFit
    <2>3. QED
      BY <1>3, <2>1, <2>2, AloneFit
  <1>5. CASE \E r \in Answerable(p), g \in BOOLEAN : m = PieceMsg(r[1], r[2], g)
    <2>1. PICK i \in Pieces, c \in Nat, g \in BOOLEAN : <<i, c>> \in wire[p] /\ c < Served(i) /\ m = PieceMsg(i, c, g)
      BY <1>1, <1>5 DEF Answerable, Calm
    <2>2. m.kind = "piece" /\ m.piece = i /\ m.block = c
      BY <2>1 DEF PieceMsg
    <2>3. Becomes(p, Append(strand[p], m), busy[p], active[p], FALSE, choked[p], wire[p] \ {<<i, c>>})
      BY <2>2 DEF TypeOK, StrandType, PieceType, StatusType, Deliver, Becomes, masterVars, statusVars
    <2>4. Fit(Append(strand[p], m), busy[p], active[p], FALSE, choked[p], wire[p] \ {<<i, c>>}, have)
      BY <1>1, <1>2, <2>1, AnswerFit
    <2>5. QED
      BY <1>3, <2>3, <2>4, AloneFit
  <1>6. QED
    BY <1>4, <1>5

LEMMA EnvironmentCalm ==
    ASSUME Calm, TypeOK, ReadChain, Everyone, NEW p \in Peers, Environment(p)
    PROVE  Everyone'
  <1>1. CASE Access(p)
    <2>1. strand[p] \in Seq(Handler)
      BY ClientTypes
    <2>2. Becomes(p, Append(strand[p], Signal("Read")), busy[p], active[p], reading[p], choked[p], wire[p]) /\ Alone(p)
      BY <1>1 DEF TypeOK, StrandType, Access, Becomes, Alone, masterVars, pieceVars
    <2>3. Signal("Read") \in Handler /\ Signal("Read").kind = "Read"
      BY HandlerTypes DEF SignalKinds, Signal, Post
    <2>4. Fit(Append(strand[p], Signal("Read")), busy[p], active[p], reading[p], choked[p], wire[p], have)
      BY <2>1, <2>3, PushFit DEF Everyone, Here
    <2>5. QED
      BY <2>2, <2>4, AloneFit
  <1>2. CASE RemoteServes(p) \/ RemoteDisturbs(p)
    <2>1. /\ Signal("bitfield") \in Handler /\ Signal("unchoke") \in Handler /\ Signal("interested") \in Handler
          /\ Signal("choke") \in Handler /\ \A i \in Pieces : Post("have", i) \in Handler
      BY HandlerTypes DEF SignalKinds, PieceKinds
    <2>2. /\ \A k : Signal(k).kind = k /\ \A i : Post(k, i).kind = k
      BY DEF Signal, Post
    <2>3. \A r \in Answerable(p), g \in BOOLEAN : PieceMsg(r[1], r[2], g) \in Handler
      <3>1. \A r \in Answerable(p) : r[1] \in Pieces /\ r[2] \in Nat
        BY ClientTypes DEF Answerable
      <3>2. QED
        BY <3>1, HandlerTypes
    <2>4. CASE \E k \in {"bitfield", "unchoke", "interested", "choke"} : Deliver(p, Signal(k))
      <3>1. PICK k \in {"bitfield", "unchoke", "interested", "choke"} : Deliver(p, Signal(k))
        BY <2>4
      <3>2. Signal(k) \in Handler /\ Signal(k).kind \in MessageKinds \ {"piece"}
        BY <2>1, <2>2, <3>1 DEF MessageKinds
      <3>3. QED
        BY <3>1, <3>2, DeliverCalm
    <2>5. CASE \E i \in Pieces : Deliver(p, Post("have", i))
      <3>1. PICK i \in Pieces : Deliver(p, Post("have", i))
        BY <2>5
      <3>2. Post("have", i) \in Handler /\ Post("have", i).kind \in MessageKinds \ {"piece"}
        BY <2>1, <2>2 DEF MessageKinds
      <3>3. QED
        BY <3>1, <3>2, DeliverCalm
    <2>6. CASE \E r \in Answerable(p), g \in BOOLEAN : Deliver(p, PieceMsg(r[1], r[2], g))
      BY <2>3, <2>6, DeliverCalm
    <2>7. QED
      <3>1. RemoteHas[p] \subseteq Pieces
        BY RemoteHasAssumption
      <3>2. QED
        BY <1>2, <2>4, <2>5, <2>6, <3>1 DEF RemoteServes, RemoteDisturbs
  <1>3. CASE PieceTimerFires(p) \/ KeepAliveTimerFires(p)
    BY <1>3 DEF Calm, PieceTimerFires, KeepAliveTimerFires
  <1>4. CASE Disconnect(p)
    <2>1. Becomes(p, strand[p], busy[p], active[p], FALSE, choked[p], {}) /\ Alone(p)
      BY <1>4 DEF TypeOK, StrandType, PieceType, Disconnect, Becomes, Alone, masterVars
    <2>2. Fit(strand[p], busy[p], active[p], FALSE, choked[p], {}, have)
      BY ClientTypes, DropFit DEF Everyone, Here
    <2>3. QED
      BY <2>1, <2>2, AloneFit
  <1>5. QED
    BY <1>1, <1>2, <1>3, <1>4 DEF Environment

\* What a handler that starts to run finds.
LEMMA RunsFit ==
    ASSUME TypeOK, ReadChain, Everyone, NEW p \in Peers, NEW k, Runs(p, k)
    PROVE  /\ strand[p] \in Seq(Handler) /\ strand[p] # <<>> /\ Head(strand[p]).kind = k
           /\ Head(strand[p]) \in Handler /\ Tail(strand[p]) \in Seq(Handler) /\ active[p] \in ActiveSet
           /\ busy[p] = Idle /\ Ordered(strand[p])
           /\ k \in MessageKinds => reading[p] = FALSE
           /\ Fit(strand[p], Idle, active[p], reading[p], choked[p], wire[p], have)
           /\ Fit(Tail(strand[p]), Idle, active[p], reading[p], choked[p], wire[p], have)
  <1>1. /\ busy[p] = Idle /\ strand[p] \in Seq(Handler) /\ strand[p] # <<>>
        /\ Head(strand[p]) \in Handler /\ Head(strand[p]).kind = k
        /\ Tail(strand[p]) \in Seq(Handler)
    BY RunsFacts
  <1>2. Chained(p)
    BY DEF ReadChain
  <1>3. k \in MessageKinds => reading[p] = FALSE
    BY <1>2, RunsChained, ClientTypes
  <1>4. Fit(strand[p], Idle, active[p], reading[p], choked[p], wire[p], have)
    BY <1>1 DEF Everyone, Here
  <1>5. Fit(Tail(strand[p]), Idle, active[p], reading[p], choked[p], wire[p], have)
    BY <1>1, <1>4, PopFit
  <1>6. QED
    BY <1>1, <1>2, <1>3, <1>4, <1>5, ClientTypes DEF Chained

LEMMA HandleResponseCalm ==
    ASSUME Calm, TypeOK, ReadChain, Everyone, NEW p \in Peers, HandleResponse(p)
    PROVE  Everyone'
  <1> DEFINE s == strand[p]
  <1>t. /\ strand[p] \in Seq(Handler) /\ busy[p] \in BusySet /\ active[p] \in ActiveSet /\ Chained(p)
        /\ strand \in [Peers -> Seq(Handler)] /\ busy \in [Peers -> BusySet] /\ active \in [Peers -> ActiveSet]
        /\ reading \in [Peers -> BOOLEAN] /\ choked \in [Peers -> BOOLEAN] /\ DOMAIN wire = Peers
    BY ClientTypes DEF TypeOK, StrandType, PieceType, StatusType, ReadChain
  <1>c. Idle.at = "idle"
    BY RestFacts
  <1>1. CASE HandleChoke(p)
    <2>1. Runs(p, "choke")
      BY <1>1 DEF HandleChoke
    <2>2. Fit(s, Idle, active[p], FALSE, choked[p], wire[p], have) /\ Head(s).kind = "choke" /\ Ordered(s) /\ s # <<>>
      BY <2>1, RunsFit DEF MessageKinds
    <2>3. Fit(Append(Tail(s), Signal("Choked")), Idle, active[p], FALSE, TRUE, {}, have)
      BY <1>t, <2>2, ChokeFit
    <2>4. Append(Tail(s), Signal("Choked")) \in Seq(Handler)
      BY <2>1, RunsFacts, HandlerTypes DEF SignalKinds
    <2>5. Fit(PostRead(p, Append(Tail(s), Signal("Choked"))), Idle, active[p], FALSE, TRUE, {}, have)
      BY <2>3, <2>4, PostReadFit
    <2>6. reading[p] = FALSE /\ busy[p] = Idle
      BY <2>1, RunsFit DEF MessageKinds
    <2>7. Becomes(p, PostRead(p, Append(Tail(s), Signal("Choked"))), Idle, active[p], FALSE, TRUE, {}) /\ Alone(p)
      BY <1>1, <1>t, <2>6 DEF HandleChoke, Becomes, Alone, masterVars, Calm
    <2>8. QED
      BY <2>5, <2>7, AloneFit
  <1>2. CASE HandleUnchoke(p)
    <2>1. Runs(p, "unchoke")
      BY <1>2 DEF HandleUnchoke
    <2>2. Fit(s, Idle, active[p], reading[p], choked[p], wire[p], have) /\ Head(s).kind \in MessageKinds /\ s # <<>>
      BY <2>1, RunsFit DEF MessageKinds
    <2>3. Fit(Tail(s), CallTry(TRUE), active[p], reading[p], FALSE, wire[p], have)
      BY <1>t, <2>2, MessageFit
    <2>4. Becomes(p, Tail(s), CallTry(TRUE), active[p], reading[p], FALSE, wire[p]) /\ Alone(p)
      BY <1>2, <1>t DEF HandleUnchoke, Becomes, Alone, masterVars, pieceVars
    <2>5. QED
      BY <2>3, <2>4, AloneFit
  <1>3. ASSUME NEW k \in {"interested", "have", "bitfield"}, Runs(p, k), UNCHANGED <<active, reading, choked, wire, have>>,
               \/ strand' = [strand EXCEPT ![p] = PostRead(p, Tail(@))] /\ busy' = busy
               \/ strand' = [strand EXCEPT ![p] = Tail(@)] /\ busy' = [busy EXCEPT ![p] = CallTry(TRUE)]
        PROVE  Everyone'
    <2>1. /\ Fit(s, Idle, active[p], reading[p], choked[p], wire[p], have) /\ Head(s).kind \in MessageKinds
          /\ s # <<>> /\ busy[p] = Idle /\ Tail(s) \in Seq(Handler)
          /\ Fit(Tail(s), Idle, active[p], reading[p], choked[p], wire[p], have)
      BY <1>3, RunsFit DEF MessageKinds
    <2>2. Alone(p)
      BY <1>3, <1>t DEF Alone
    <2>3. CASE strand' = [strand EXCEPT ![p] = PostRead(p, Tail(@))] /\ busy' = busy
      <3>1. Fit(PostRead(p, Tail(s)), Idle, active[p], reading[p], choked[p], wire[p], have)
        BY <2>1, PostReadFit
      <3>2. Becomes(p, PostRead(p, Tail(s)), Idle, active[p], reading[p], choked[p], wire[p])
        BY <1>3, <1>t, <2>1, <2>3 DEF Becomes
      <3>3. QED
        BY <2>2, <3>1, <3>2, AloneFit
    <2>4. CASE strand' = [strand EXCEPT ![p] = Tail(@)] /\ busy' = [busy EXCEPT ![p] = CallTry(TRUE)]
      <3>1. Fit(Tail(s), CallTry(TRUE), active[p], reading[p], choked[p], wire[p], have)
        BY <1>t, <2>1, MessageFit
      <3>2. Becomes(p, Tail(s), CallTry(TRUE), active[p], reading[p], choked[p], wire[p])
        BY <1>3, <1>t, <2>4 DEF Becomes
      <3>3. QED
        BY <2>2, <3>1, <3>2, AloneFit
    <2>5. QED
      BY <1>3, <2>3, <2>4
  <1>4. CASE HandleInterested(p)
    BY <1>3, <1>4 DEF HandleInterested, masterVars, statusVars, pieceVars
  <1>5. CASE HandleHave(p)
    BY <1>3, <1>5 DEF HandleHave, masterVars, pieceVars
  <1>6. CASE HandleBitfield(p)
    BY <1>3, <1>6 DEF HandleBitfield, masterVars, pieceVars
  <1>7. CASE HandlePiece(p)
    <2> DEFINE m == Head(s)
    <2>1. Runs(p, "piece")
      BY <1>7 DEF HandlePiece
    <2>2. /\ Fit(s, Idle, active[p], reading[p], choked[p], wire[p], have) /\ m.kind = "piece"
          /\ s # <<>> /\ busy[p] = Idle /\ Tail(s) \in Seq(Handler) /\ m \in Handler
          /\ Fit(Tail(s), Idle, active[p], reading[p], choked[p], wire[p], have)
      BY <2>1, RunsFit
    <2>3. Alone(p) /\ UNCHANGED <<active, reading, choked, wire>>
      BY <1>7, <1>t DEF HandlePiece, Alone, masterVars, statusVars
    <2>4. CASE strand' = [strand EXCEPT ![p] = PostRead(p, Tail(@))] /\ busy' = busy
      <3>1. Fit(PostRead(p, Tail(s)), Idle, active[p], reading[p], choked[p], wire[p], have)
        BY <2>2, PostReadFit
      <3>2. Becomes(p, PostRead(p, Tail(s)), Idle, active[p], reading[p], choked[p], wire[p])
        BY <1>t, <2>2, <2>3, <2>4 DEF Becomes
      <3>3. QED
        BY <2>3, <3>1, <3>2, AloneFit
    <2>5. CASE /\ m.piece \in have /\ busy' = busy
               /\ strand' = [strand EXCEPT ![p] = PostRead(p, Append(Tail(@), Post("Cancel", m.piece)))]
      <3> DEFINE u == Append(Tail(s), Post("Cancel", m.piece))
      <3>1. m.piece \in Pieces
        BY <2>2, HandlerTypes DEF PieceKinds
      <3>2. Post("Cancel", m.piece) \in Handler /\ Post("Cancel", m.piece).kind = "Cancel" /\ Post("Cancel", m.piece).piece = m.piece
        BY <3>1, HandlerTypes DEF PieceKinds, Post
      <3>3. u \in Seq(Handler) /\ Fit(u, Idle, active[p], reading[p], choked[p], wire[p], have)
        BY <1>c, <2>2, <2>5, <3>2, PushFit, AppendProps
      <3>4. Fit(PostRead(p, u), Idle, active[p], reading[p], choked[p], wire[p], have)
        BY <3>3, PostReadFit
      <3>5. Becomes(p, PostRead(p, u), Idle, active[p], reading[p], choked[p], wire[p])
        BY <1>t, <2>2, <2>3, <2>5 DEF Becomes
      <3>6. QED
        BY <2>3, <3>4, <3>5, AloneFit
    <2>6. CASE /\ m.piece \notin have /\ strand' = [strand EXCEPT ![p] = Tail(@)]
               /\ busy' = [busy EXCEPT ![p] = Rest("checked", m, TRUE)]
      <3>1. Fit(Tail(s), Rest("checked", m, TRUE), active[p], reading[p], choked[p], wire[p], have)
        BY <1>t, <2>2, <2>6, AcceptFit
      <3>2. Becomes(p, Tail(s), Rest("checked", m, TRUE), active[p], reading[p], choked[p], wire[p])
        BY <1>t, <2>3, <2>6 DEF Becomes
      <3>3. QED
        BY <2>3, <3>1, <3>2, AloneFit
    <2>7. QED
      BY <1>7, <2>4, <2>5, <2>6 DEF HandlePiece, PieceDone
  <1>8. CASE PostBlock(p)
    <2> DEFINE u == Append(s, [busy[p].msg EXCEPT !.kind = "Block"])
    <2>1. busy[p].at = "checked"
      BY <1>8 DEF PostBlock
    <2>2. Clean(s)
      BY <1>t, <2>1 DEF Chained
    <2>3. Fit(s, busy[p], active[p], reading[p], choked[p], wire[p], have)
      BY DEF Everyone, Here
    <2>4. u \in Seq(Handler) /\ Fit(u, Idle, active[p], reading[p], choked[p], wire[p], have)
      BY <1>t, <2>1, <2>2, <2>3, PostBlockFit
    <2>5. Fit(PostRead(p, u), Idle, active[p], reading[p], choked[p], wire[p], have)
      BY <2>4, PostReadFit
    <2>6. Becomes(p, PostRead(p, u), Idle, active[p], reading[p], choked[p], wire[p]) /\ Alone(p)
      BY <1>8, <1>t DEF PostBlock, Becomes, Alone, masterVars, statusVars, pieceVars
    <2>7. QED
      BY <2>5, <2>6, AloneFit
  <1>9. QED
    BY <1>1, <1>2, <1>4, <1>5, <1>6, <1>7, <1>8 DEF HandleResponse

\* A block is stored where it belongs: the slot exists, and a complete piece is handed
\* over under its own index.
LEMMA RunBlockCalm ==
    ASSUME TypeOK, ReadChain, Everyone, NEW p \in Peers, RunBlock(p)
    PROVE  /\ Everyone' /\ crashed' = crashed
           /\ active'[p].piece = active[p].piece /\ \A q \in Peers \ {p} : active'[q] = active[q] /\ strand'[q] = strand[q]
           /\ \A n \in 1 .. Len(strand[p]) : strand[p][n].kind # "Clear"
           /\ \/ /\ jobs' = jobs /\ \A n \in 1 .. Len(strand'[p]) : strand'[p][n].kind # "Clear"
              \/ \E j \in JobSet : j.index = active[p].piece /\ j.piece = active[p].piece /\ jobs' = Append(jobs, j)
  <1> DEFINE s == strand[p]
             h == Head(s)
             a == active[p]
             x == IF h.good THEN h.piece ELSE NoPiece
             new == [a EXCEPT !.count = @ + 1, !.blocks = [@ EXCEPT ![h.block + 1] = x]]
             t == Tail(s)
  <1>t. /\ strand \in [Peers -> Seq(Handler)] /\ busy \in [Peers -> BusySet] /\ active \in [Peers -> ActiveSet]
        /\ reading \in [Peers -> BOOLEAN] /\ choked \in [Peers -> BOOLEAN] /\ DOMAIN wire = Peers
    BY DEF TypeOK, StrandType, PieceType, StatusType
  <1>1. Runs(p, "Block")
    BY DEF RunBlock
  <1>2. /\ Fit(s, Idle, a, reading[p], choked[p], wire[p], have) /\ h.kind = "Block" /\ Ordered(s)
        /\ s # <<>> /\ busy[p] = Idle /\ t \in Seq(Handler) /\ h \in Handler /\ s \in Seq(Handler) /\ a \in ActiveSet
    BY <1>1, RunsFit
  <1>3. x \in Content
    BY <1>2, HandlerTypes DEF PieceKinds, Content
  <1>4. /\ a.piece = h.piece /\ a.piece \in Pieces /\ h.block < Len(a.blocks)
        /\ Fit(t, Idle, new, reading[p], choked[p], wire[p], have)
        /\ \A n \in 1 .. Len(t) : t[n].kind \notin MessageKinds \cup {"Block", "Clear"}
        /\ \A n \in 1 .. Len(s) : s[n].kind # "Clear"
    BY <1>2, <1>3, StoreFit
  <1>5. new.piece = a.piece /\ new.blocks \in Seq(Content) /\ new.blocks # <<>>
    <2>1. h.block \in Nat /\ a.blocks \in Seq(Content)
      BY <1>2 DEF Handler, ActiveSet
    <2>2. h.block + 1 \in 1 .. Len(a.blocks)
      BY <1>4, <2>1
    <2> DEFINE bs == [a.blocks EXCEPT ![h.block + 1] = x]
    <2>3. bs \in Seq(Content) /\ bs # <<>>
      BY <1>3, <2>1, <2>2, UpdateType
    <2>4. new.piece = a.piece /\ new.blocks = bs
      BY <1>2 DEF ActiveSet
    <2> HIDE DEF bs, new
    <2>5. QED
      BY <2>3, <2>4
  <1>6. ~(a.piece = NoPiece \/ h.block >= Len(a.blocks))
    <2>1. a.piece # NoPiece
      BY <1>4, PiecesAssumption
    <2>2. h.block \in Nat /\ Len(a.blocks) \in Nat
      BY <1>2 DEF Handler, ActiveSet
    <2>3. QED
      BY <1>4, <2>1, <2>2
  <1>7. /\ active' = [active EXCEPT ![p] = new] /\ crashed' = crashed
        /\ \/ /\ new.count = BlockCount[a.piece]
              /\ jobs' = Append(jobs, [index |-> h.piece, piece |-> a.piece, blocks |-> new.blocks])
              /\ strand' = [strand EXCEPT ![p] = Append(Tail(@), Signal("Clear"))]
              /\ busy' = busy
           \/ /\ new.count # BlockCount[a.piece]
              /\ strand' = [strand EXCEPT ![p] = Tail(@)]
              /\ busy' = [busy EXCEPT ![p] = IF WindowFull(new.count) THEN CallTry(FALSE) ELSE @]
              /\ jobs' = jobs
        /\ UNCHANGED <<have, choked, reading, wire>>
    BY <1>6 DEF RunBlock, masterVars, statusVars
  <1> HIDE DEF new, x
  <1>8. Alone(p) /\ active'[p] = new
    BY <1>7, <1>t DEF Alone
  <1>9. /\ active'[p].piece = active[p].piece
        /\ \A q \in Peers \ {p} : active'[q] = active[q] /\ strand'[q] = strand[q]
    BY <1>5, <1>8 DEF Alone
  <1>10. CASE /\ new.count = BlockCount[a.piece] /\ busy' = busy
              /\ jobs' = Append(jobs, [index |-> h.piece, piece |-> a.piece, blocks |-> new.blocks])
              /\ strand' = [strand EXCEPT ![p] = Append(Tail(@), Signal("Clear"))]
    <2> DEFINE j == [index |-> h.piece, piece |-> a.piece, blocks |-> new.blocks]
    <2>1. new.count = BlockCount[new.piece]
      BY <1>5, <1>10
    <2>2. Fit(Append(t, Signal("Clear")), Idle, new, reading[p], choked[p], wire[p], have)
      BY <1>2, <1>4, <2>1, PostClearFit
    <2>3. Becomes(p, Append(t, Signal("Clear")), Idle, new, reading[p], choked[p], wire[p])
      BY <1>2, <1>7, <1>8, <1>10, <1>t DEF Becomes
    <2>4. Everyone'
      BY <1>8, <2>2, <2>3, AloneFit
    <2>5. j \in JobSet /\ j.index = a.piece /\ j.piece = a.piece
      BY <1>4, <1>5 DEF JobSet
    <2>6. jobs' = Append(jobs, j)
      BY <1>10
    <2> HIDE DEF j
    <2>7. \E k \in JobSet : k.index = active[p].piece /\ k.piece = active[p].piece /\ jobs' = Append(jobs, k)
      BY <2>5, <2>6
    <2>8. QED
      BY <1>4, <1>7, <1>9, <2>4, <2>7, Zenon
  <1>11. CASE /\ strand' = [strand EXCEPT ![p] = Tail(@)] /\ jobs' = jobs
              /\ busy' = [busy EXCEPT ![p] = IF WindowFull(new.count) THEN CallTry(FALSE) ELSE @]
    <2>1. strand'[p] = t
      BY <1>11, <1>t
    <2>2. \A n \in 1 .. Len(t) : t[n].kind # "Clear"
      BY <1>4
    <2>3. Everyone'
      <3>1. CASE WindowFull(new.count)
        <4>1. Fit(t, CallTry(FALSE), new, reading[p], choked[p], wire[p], have)
          BY <1>4, <2>2, TryFit, RestFacts
        <4>2. Becomes(p, t, CallTry(FALSE), new, reading[p], choked[p], wire[p])
          BY <1>7, <1>8, <1>11, <1>t, <2>1, <3>1 DEF Becomes
        <4>3. QED
          BY <1>8, <4>1, <4>2, AloneFit
      <3>2. CASE ~WindowFull(new.count)
        <4>1. Becomes(p, t, Idle, new, reading[p], choked[p], wire[p])
          BY <1>2, <1>7, <1>8, <1>11, <1>t, <2>1, <3>2 DEF Becomes
        <4>2. QED
          BY <1>4, <1>8, <4>1, AloneFit
      <3>3. QED
        BY <3>1, <3>2
    <2>4. \A n \in 1 .. Len(strand'[p]) : strand'[p][n].kind # "Clear"
      BY <2>1, <2>2
    <2>5. QED
      BY <1>4, <1>7, <1>9, <1>11, <2>3, <2>4, Zenon
  <1>12. QED
    BY <1>7, <1>10, <1>11

LEMMA RunHandlerCalm ==
    ASSUME Calm, TypeOK, ReadChain, Everyone, NEW p \in Peers, RunHandler(p)
    PROVE  Everyone'
  <1> DEFINE s == strand[p]
             t == Tail(s)
  <1>t. /\ strand \in [Peers -> Seq(Handler)] /\ busy \in [Peers -> BusySet] /\ active \in [Peers -> ActiveSet]
        /\ reading \in [Peers -> BOOLEAN] /\ choked \in [Peers -> BOOLEAN] /\ DOMAIN wire = Peers
    BY DEF TypeOK, StrandType, PieceType, StatusType
  <1>1. CASE RunRead(p)
    <2>1. Runs(p, "Read")
      BY <1>1 DEF RunRead
    <2>2. /\ Fit(s, Idle, active[p], reading[p], choked[p], wire[p], have) /\ Head(s).kind = "Read" /\ busy[p] = Idle
          /\ s # <<>> /\ s \in Seq(Handler)
      BY <2>1, RunsFit
    <2>3. Fit(t, Idle, active[p], conn[p] = "up", choked[p], wire[p], have)
      BY <2>2, ReadFit
    <2>4. Becomes(p, t, Idle, active[p], conn[p] = "up", choked[p], wire[p]) /\ Alone(p)
      BY <1>1, <1>t, <2>2 DEF RunRead, Becomes, Alone, masterVars, statusVars, pieceVars
    <2>5. QED
      BY <2>3, <2>4, AloneFit
  <1>2. CASE RunBlock(p)
    BY <1>2, RunBlockCalm
  <1>3. CASE RunChoked(p)
    <2>1. Runs(p, "Choked")
      BY <1>3 DEF RunChoked
    <2>2. /\ Fit(s, Idle, active[p], reading[p], choked[p], wire[p], have) /\ Head(s).kind = "Choked" /\ busy[p] = Idle
          /\ s # <<>> /\ s \in Seq(Handler)
      BY <2>1, RunsFit
    <2>3. Fit(t, Idle, NoActive, reading[p], choked[p], wire[p], have)
      BY <2>2, ChokedFit
    <2>4. Becomes(p, t, Idle, NoActive, reading[p], choked[p], wire[p]) /\ Alone(p)
      BY <1>3, <1>t, <2>2 DEF RunChoked, Becomes, Alone, statusVars
    <2>5. QED
      BY <2>3, <2>4, AloneFit
  <1>4. CASE RunClear(p)
    <2>1. Runs(p, "Clear")
      BY <1>4 DEF RunClear
    <2>2. /\ Fit(s, Idle, active[p], reading[p], choked[p], wire[p], have) /\ Head(s).kind = "Clear" /\ busy[p] = Idle
          /\ s # <<>> /\ s \in Seq(Handler) /\ active[p] \in ActiveSet
      BY <2>1, RunsFit
    <2>3. Fit(t, CallTry(FALSE), NoActive, reading[p], choked[p], wire[p], have)
      BY <2>2, ClearFit
    <2>4. Becomes(p, t, CallTry(FALSE), NoActive, reading[p], choked[p], wire[p]) /\ Alone(p)
      BY <1>4, <1>t DEF RunClear, Becomes, Alone, masterVars, statusVars
    <2>5. QED
      BY <2>3, <2>4, AloneFit
  <1>5. CASE RunCancelCheck(p)
    <2>1. Runs(p, "CancelCheck")
      BY <1>5 DEF RunCancelCheck
    <2>2. /\ Fit(s, Idle, active[p], reading[p], choked[p], wire[p], have) /\ Head(s).kind = "CancelCheck" /\ busy[p] = Idle
          /\ s # <<>> /\ s \in Seq(Handler)
          /\ Fit(t, Idle, active[p], reading[p], choked[p], wire[p], have)
      BY <2>1, RunsFit
    <2>3. CASE active[p].piece = Head(s).piece
      <3>1. Fit(Append(t, Post("Cancel", active[p].piece)), CallTry(FALSE), active[p], reading[p], choked[p], wire[p], have)
        BY <2>2, <2>3, CancelCheckFit
      <3>2. Becomes(p, Append(t, Post("Cancel", active[p].piece)), CallTry(FALSE), active[p], reading[p], choked[p], wire[p]) /\ Alone(p)
        BY <1>5, <1>t, <2>3 DEF RunCancelCheck, Becomes, Alone, masterVars, statusVars, pieceVars
      <3>3. QED
        BY <3>1, <3>2, AloneFit
    <2>4. CASE active[p].piece # Head(s).piece
      <3>1. Becomes(p, t, Idle, active[p], reading[p], choked[p], wire[p]) /\ Alone(p)
        BY <1>5, <1>t, <2>2, <2>4 DEF RunCancelCheck, Becomes, Alone, masterVars, statusVars, pieceVars
      <3>2. QED
        BY <2>2, <3>1, AloneFit
    <2>5. QED
      BY <2>3, <2>4
  <1>6. CASE RunCancel(p)
    <2> DEFINE new == IF active[p].piece = Head(s).piece THEN NoActive ELSE active[p]
    <2>1. Runs(p, "Cancel")
      BY <1>6 DEF RunCancel
    <2>2. /\ Fit(s, Idle, active[p], reading[p], choked[p], wire[p], have) /\ Head(s).kind = "Cancel" /\ busy[p] = Idle
          /\ s # <<>> /\ s \in Seq(Handler)
      BY <2>1, RunsFit
    <2>3. Fit(t, Idle, new, reading[p], choked[p], wire[p], have)
      BY <2>2, CancelFit
    <2>4. Becomes(p, t, Idle, new, reading[p], choked[p], wire[p]) /\ Alone(p)
      BY <1>6, <1>t, <2>2 DEF RunCancel, Becomes, Alone, masterVars, statusVars
    <2>5. QED
      BY <2>3, <2>4, AloneFit
  <1>7. CASE RunTry(p) \/ RunExpired(p) \/ RunTimeout(p) \/ RunKeepAlive(p)
    <2>1. PICK k \in {"Try", "Expired", "Timeout", "KeepAlive"} : Runs(p, k)
      BY <1>7 DEF RunTry, RunExpired, RunTimeout, RunKeepAlive
    <2>2. /\ Fit(s, Idle, active[p], reading[p], choked[p], wire[p], have) /\ Head(s).kind = k
          /\ s # <<>> /\ s \in Seq(Handler)
      BY <2>1, RunsFit
    <2>3. 1 \in 1 .. Len(s) /\ Head(s) = s[1]
      BY <2>2, SeqFacts
    <2>4. QED
      BY <2>1, <2>2, <2>3 DEF Fit, NoTimers
  <1>8. QED
    BY <1>1, <1>2, <1>3, <1>4, <1>5, <1>6, <1>7 DEF RunHandler

LEMMA ReturnCalm ==
    ASSUME TypeOK, Everyone, NEW p \in Peers, Return(p), Alone(p), NEW a, NEW wr,
           active'[p] = a, wire'[p] = wr, reading'[p] = reading[p], choked'[p] = choked[p],
           Fit(strand[p], Idle, a, reading[p], choked[p], wr, have)
    PROVE  Everyone'
  <1> DEFINE u == IF busy[p].reads THEN PostRead(p, strand[p]) ELSE strand[p]
  <1>1. strand[p] \in Seq(Handler) /\ strand \in [Peers -> Seq(Handler)] /\ busy \in [Peers -> BusySet]
    BY DEF TypeOK, StrandType
  <1>2. Fit(PostRead(p, strand[p]), Idle, a, reading[p], choked[p], wr, have)
    BY <1>1, PostReadFit
  <1>3. Fit(u, Idle, a, reading[p], choked[p], wr, have)
    BY <1>2
  <1>4. Becomes(p, u, Idle, a, reading[p], choked[p], wr)
    BY <1>1 DEF Return, Becomes
  <1>5. QED
    BY <1>3, <1>4, AloneFit

LEMMA TryCalm ==
    ASSUME Calm, TypeOK, ReadChain, Everyone, NEW p \in Peers, TryToRequestPiece(p)
    PROVE  Everyone'
  <1> DEFINE s == strand[p]
             a == active[p]
  <1>t. /\ strand \in [Peers -> Seq(Handler)] /\ busy \in [Peers -> BusySet] /\ active \in [Peers -> ActiveSet]
        /\ reading \in [Peers -> BOOLEAN] /\ choked \in [Peers -> BOOLEAN] /\ DOMAIN wire = Peers
        /\ s \in Seq(Handler) /\ busy[p] \in BusySet /\ a \in ActiveSet
    BY DEF TypeOK, StrandType, PieceType, StatusType
  <1>f. Fit(s, busy[p], a, reading[p], choked[p], wire[p], have)
    BY DEF Everyone, Here
  <1>i. Fit(s, Idle, a, reading[p], choked[p], wire[p], have)
    BY <1>f, IdleFit
  <1>1. CASE TryNothing(p)
    <2>1. Alone(p) /\ Return(p) /\ UNCHANGED <<active, wire, reading, choked>>
      BY <1>1, <1>t DEF TryNothing, Return, Alone, masterVars, pieceVars
    <2>2. QED
      BY <1>i, <2>1, ReturnCalm
  <1>2. CASE TryChoose(p)
    <2>1. busy[p].at = "try" /\ a.piece = NoPiece /\ choked[p] = FALSE
      BY <1>2, <1>t DEF TryChoose
    <2>2. PICK i \in Candidates(p) : busy' = [busy EXCEPT ![p] = Rest("chosen", Post("Try", i), @.reads)]
      BY <1>2 DEF TryChoose
    <2>3. i \in Pieces /\ i \notin have
      BY <2>2 DEF Candidates, TypeOK, StatusType
    <2>4. Fit(s, busy[p], a, reading[p], FALSE, wire[p], have)
      BY <1>f, <2>1
    <2>5. Fit(s, Rest("chosen", Post("Try", i), busy[p].reads), a, reading[p], FALSE, wire[p], have)
      BY <1>t, <2>1, <2>3, <2>4, ChooseFit
    <2>6. Becomes(p, s, Rest("chosen", Post("Try", i), busy[p].reads), a, reading[p], FALSE, wire[p]) /\ Alone(p)
      BY <1>2, <1>t, <2>1, <2>2 DEF TryChoose, Becomes, Alone, masterVars, pieceVars
    <2>7. QED
      BY <2>5, <2>6, AloneFit
  <1>3. CASE TryRequest(p)
    <2> DEFINE i == busy[p].msg.piece
               wr == wire'[p]
    <2>1. /\ busy[p].at = "chosen" /\ Return(p) /\ Transmit(p, RequestSet(Fresh(i)))
          /\ active'[p] = SendRequests(Fresh(i)) /\ UNCHANGED <<reading, choked, have>>
      BY <1>3, <1>t DEF TryRequest, statusVars
    <2>2. wr = wire[p] \/ wr = wire[p] \cup RequestSet(Fresh(i))
      BY <1>t, <2>1 DEF Transmit
    <2>3. Fit(s, Idle, SendRequests(Fresh(i)), reading[p], choked[p], wr, have)
      BY <1>t, <1>f, <2>1, <2>2, RequestFit
    <2>4. Alone(p)
      BY <1>3, <1>t, <2>1 DEF TryRequest, Return, Transmit, Alone
    <2>5. QED
      BY <2>1, <2>3, <2>4, ReturnCalm
  <1>4. CASE TryContinue(p)
    <2>1. busy[p].at = "try" /\ a.piece # NoPiece /\ Return(p) /\ UNCHANGED <<reading, choked, have>>
      BY <1>4 DEF TryContinue, masterVars, statusVars
    <2>2. CASE AllAsked(a)
      <3>1. Alone(p) /\ UNCHANGED <<active, wire>>
        BY <1>4, <1>t, <2>1, <2>2 DEF TryContinue, Return, Alone, pieceVars
      <3>2. QED
        BY <1>i, <2>1, <3>1, ReturnCalm
    <2>3. CASE ~AllAsked(a)
      <3>1. Transmit(p, RequestSet(a)) /\ active' = [active EXCEPT ![p] = SendRequests(a)]
        BY <1>4, <2>3 DEF TryContinue
      <3>2. wire'[p] = wire[p] \/ (~choked[p] /\ wire'[p] = wire[p] \cup RequestSet(a))
        BY <1>t, <3>1 DEF Transmit, Calm
      <3>3. Fit(s, Idle, SendRequests(a), reading[p], choked[p], wire'[p], have)
        BY <1>t, <1>f, <2>1, <3>2, ContinueFit
      <3>4. Alone(p) /\ active'[p] = SendRequests(a)
        BY <1>t, <2>1, <3>1 DEF Return, Transmit, Alone
      <3>5. QED
        BY <2>1, <3>3, <3>4, ReturnCalm
    <2>4. QED
      BY <2>2, <2>3
  <1>5. QED
    BY <1>1, <1>2, <1>3, <1>4 DEF TryToRequestPiece

-----------------------------------------------------------------------------
(* Write jobs. *)

\* A job writes a piece under its own index; a thread that marks a piece as done has
\* written it, and one that counts it has marked it.
JobsFit == \A n \in 1 .. Len(jobs) : jobs[n].index = jobs[n].piece

ThreadsFit ==
    \A w \in Workers : /\ step[w] = "wait" => job[w] = NoPiece
                       /\ step[w] = "have" => disk[job[w]] = job[w]
                       /\ step[w] \in {"count", "strategy", "announce"} => job[w] \in have

LEMMA WorkerCalm ==
    ASSUME TypeOK, Everyone, ThreadsFit, NEW w \in Workers, DownloadPiece(w)
    PROVE  Everyone'
  <1>1. have \subseteq have' /\ UNCHANGED <<busy, active, reading, choked, wire>>
    BY DEF DownloadPiece, VerifyAndWrite, Have, HaveLost, CountPiece, EndGameStep, Announce, Unbind,
           strandVars, statusVars, pieceVars
  <1>2. ASSUME NEW q \in Peers, strand'[q] = strand[q] PROVE Here(q)'
    <2>1. Fit(strand[q], busy[q], active[q], reading[q], choked[q], wire[q], have')
      BY <1>1, GrowFit DEF Everyone, Here
    <2>2. QED
      BY <1>1, <1>2, <2>1 DEF Here
  <1>3. CASE strand' = strand
    BY <1>2, <1>3 DEF Everyone
  <1>4. CASE strand' # strand
    <2> DEFINE h == Post("CancelCheck", job[w])
    <2>1. step[w] = "strategy" /\ strand' = PostToAll(strand, h) /\ have' = have
      BY <1>4 DEF DownloadPiece, VerifyAndWrite, Have, HaveLost, CountPiece, EndGameStep, Announce, Unbind, strandVars
    <2>2. h \in Handler /\ h.kind = "CancelCheck" /\ h.piece \in have
      <3>1. job[w] \in have /\ job[w] \in Pieces
        BY <2>1 DEF ThreadsFit, TypeOK, MasterType
      <3>2. QED
        BY <3>1, HandlerTypes DEF PieceKinds, Post
    <2> HIDE DEF h
    <2>3. ASSUME NEW q \in Peers, conn[q] = "up" PROVE Here(q)'
      <3>1. strand'[q] = Append(strand[q], h)
        BY <2>1, <2>3 DEF PostToAll
      <3>2. Fit(Append(strand[q], h), busy[q], active[q], reading[q], choked[q], wire[q], have)
        BY <2>2, ClientTypes, PushFit DEF Everyone, Here
      <3>3. QED
        BY <1>1, <2>1, <3>1, <3>2 DEF Here
    <2>4. ASSUME NEW q \in Peers, conn[q] # "up" PROVE Here(q)'
      <3>1. strand'[q] = strand[q]
        BY <2>1, <2>4 DEF PostToAll
      <3>2. QED
        BY <1>2, <3>1
    <2>5. QED
      BY <2>3, <2>4 DEF Everyone
  <1>5. QED
    BY <1>3, <1>4

\* The steps of the clients leave the disk and the threads alone.
LEMMA ClientDisk ==
    ASSUME TypeOK, ReadChain, Everyone, JobsFit, ThreadsFit, Integrity, NoCrash, NEW p \in Peers, Environment(p) \/ Strand(p)
    PROVE  JobsFit' /\ ThreadsFit' /\ Integrity' /\ NoCrash'
  <1>1. UNCHANGED <<have, disk, job, step>>
    BY DEF Environment, Access, RemoteServes, RemoteDisturbs, Deliver, PieceTimerFires, KeepAliveTimerFires, Disconnect,
           Strand, HandleResponse, HandleChoke, HandleUnchoke, HandleInterested, HandleHave, HandleBitfield, HandlePiece, PostBlock,
           RunHandler, RunRead, RunBlock, RunChoked, RunClear, RunTry, RunCancelCheck, RunCancel, RunExpired, RunTimeout, RunKeepAlive,
           TryToRequestPiece, TryNothing, TryChoose, TryRequest, TryContinue, masterVars, workerVars
  <1>2. ThreadsFit' /\ Integrity'
    BY <1>1 DEF ThreadsFit, Integrity
  <1>3. CASE RunBlock(p)
    <2>1. /\ crashed' = crashed
          /\ \/ jobs' = jobs
             \/ \E j \in JobSet : j.index = active[p].piece /\ j.piece = active[p].piece /\ jobs' = Append(jobs, j)
      BY <1>3, RunBlockCalm
    <2>2. jobs \in Seq(JobSet)
      BY DEF TypeOK, WorkerType
    <2>3. JobsFit'
      <3>1. CASE jobs' = jobs
        BY <3>1 DEF JobsFit
      <3>2. CASE \E j \in JobSet : j.index = active[p].piece /\ j.piece = active[p].piece /\ jobs' = Append(jobs, j)
        <4>1. PICK j \in JobSet : j.index = j.piece /\ jobs' = Append(jobs, j)
          BY <3>2
        <4>2. /\ Len(jobs) \in Nat /\ Len(jobs') = Len(jobs) + 1 /\ jobs'[Len(jobs) + 1] = j
              /\ \A n \in 1 .. Len(jobs) : jobs'[n] = jobs[n]
          BY <2>2, <4>1, AppendProps
        <4>3. QED
          BY <4>1, <4>2 DEF JobsFit
      <3>3. QED
        BY <2>1, <3>1, <3>2
    <2>4. QED
      BY <1>2, <2>1, <2>3 DEF NoCrash
  <1>4. CASE ~RunBlock(p)
    <2>1. UNCHANGED <<jobs, crashed>>
      BY <1>4 DEF Environment, Access, RemoteServes, RemoteDisturbs, Deliver, PieceTimerFires, KeepAliveTimerFires, Disconnect,
           Strand, HandleResponse, HandleChoke, HandleUnchoke, HandleInterested, HandleHave, HandleBitfield, HandlePiece, PostBlock,
           RunHandler, RunRead, RunChoked, RunClear, RunTry, RunCancelCheck, RunCancel, RunExpired, RunTimeout, RunKeepAlive,
           TryToRequestPiece, TryNothing, TryChoose, TryRequest, TryContinue, workerVars
    <2>2. QED
      BY <1>2, <2>1 DEF JobsFit, NoCrash
  <1>5. QED
    BY <1>3, <1>4

\* The steps of a write job.
LEMMA WorkerDisk ==
    ASSUME Calm, TypeOK, JobsFit, ThreadsFit, Integrity, NoCrash, NEW w \in Workers, DownloadPiece(w)
    PROVE  JobsFit' /\ ThreadsFit' /\ Integrity' /\ NoCrash'
  <1>t. /\ have \subseteq Pieces /\ disk \in [Pieces -> Content] /\ jobs \in Seq(JobSet)
        /\ job \in [Workers -> Content] /\ DOMAIN step = Workers
        /\ \A v \in Workers : step[v] # "wait" => job[v] \in Pieces
    BY DEF TypeOK, MasterType, WorkerType
  <1>c. NoCrash'
    BY DEF NoCrash, DownloadPiece, VerifyAndWrite, Have, HaveLost, CountPiece, EndGameStep, Announce, Unbind
  <1>1. CASE VerifyAndWrite(w)
    <2> DEFINE j == Head(jobs)
    <2>1. jobs # <<>> /\ step[w] = "wait" /\ jobs' = Tail(jobs) /\ job' = [job EXCEPT ![w] = j.index] /\ have' = have
      BY <1>1 DEF VerifyAndWrite
    <2>2. /\ j \in JobSet /\ j = jobs[1] /\ 1 \in 1 .. Len(jobs) /\ Len(jobs) \in Nat /\ Len(Tail(jobs)) = Len(jobs) - 1
          /\ \A n \in 1 .. Len(Tail(jobs)) : Tail(jobs)[n] = jobs[n + 1]
      BY <1>t, <2>1, TailProps
    <2>3. j.index = j.piece /\ j.index \in Pieces
      BY <2>2 DEF JobsFit, JobSet
    <2>4. JobsFit'
      <3>1. \A n \in 1 .. Len(Tail(jobs)) : n + 1 \in 1 .. Len(jobs)
        BY <2>2
      <3>2. QED
        BY <2>1, <2>2, <3>1 DEF JobsFit
    <2>5. CASE ArePieceValid(j)
      <3>1. ContentOf(j.blocks) = j.index
        <4>1. Len(j.blocks) = BlockCount[j.index] /\ \A slot \in 1 .. Len(j.blocks) : j.blocks[slot] = j.index
          BY <2>5 DEF ArePieceValid
        <4>2. 1 \in 1 .. Len(j.blocks)
          BY <2>2 DEF JobSet
        <4>3. QED
          BY <4>1, <4>2 DEF ContentOf
      <3>2. disk' = [disk EXCEPT ![j.piece] = j.piece] /\ step' = [step EXCEPT ![w] = "have"]
        BY <1>1, <2>3, <2>5, <3>1 DEF VerifyAndWrite
      <3> HIDE DEF j
      <3>3. \A i \in Pieces : disk[i] = i => disk'[i] = i
        BY <1>t, <2>3, <3>2
      <3>4. disk'[j.index] = j.index
        BY <1>t, <2>3, <3>2
      <3>5. Integrity'
        BY <1>t, <2>1, <3>3 DEF Integrity
      <3>6. ThreadsFit'
        <4> SUFFICES ASSUME NEW v \in Workers
                     PROVE  /\ step'[v] = "wait" => job'[v] = NoPiece
                            /\ step'[v] = "have" => disk'[job'[v]] = job'[v]
                            /\ step'[v] \in {"count", "strategy", "announce"} => job'[v] \in have'
          BY DEF ThreadsFit
        <4>1. CASE v = w
          BY <1>t, <2>1, <3>2, <3>4, <4>1
        <4>2. CASE v # w
          <5>1. step'[v] = step[v] /\ job'[v] = job[v]
            BY <1>t, <2>1, <3>2, <4>2
          <5>2. QED
            BY <1>t, <2>1, <3>3, <5>1 DEF ThreadsFit
        <4>3. QED
          BY <4>1, <4>2
      <3>7. QED
        BY <1>c, <2>4, <3>5, <3>6
    <2>6. CASE ~ArePieceValid(j)
      <3>1. disk' = disk /\ step' = [step EXCEPT ![w] = "unbind"]
        BY <1>1, <2>6 DEF VerifyAndWrite
      <3> HIDE DEF j
      <3>2. ThreadsFit' /\ Integrity'
        BY <1>t, <2>1, <3>1 DEF ThreadsFit, Integrity
      <3>3. QED
        BY <1>c, <2>4, <3>2
    <2>7. QED
      BY <2>5, <2>6
  <1>2. CASE Have(w)
    <2>1. /\ step[w] = "have" /\ have' = have \cup {job[w]} /\ step' = [step EXCEPT ![w] = "count"]
          /\ UNCHANGED <<disk, jobs, job>>
      BY <1>2 DEF Have
    <2>2. QED
      BY <1>c, <1>t, <2>1 DEF JobsFit, ThreadsFit, Integrity
  <1>3. CASE HaveLost(w)
    BY <1>3 DEF HaveLost, Calm
  <1>4. CASE CountPiece(w) \/ EndGameStep(w) \/ Announce(w)
    <2>1. /\ step[w] \in {"count", "strategy", "announce"} /\ UNCHANGED <<have, disk, jobs, job>>
          /\ \E x \in {"strategy", "announce", "unbind"} : step' = [step EXCEPT ![w] = x]
      BY <1>4 DEF CountPiece, EndGameStep, Announce
    <2>2. QED
      BY <1>c, <1>t, <2>1 DEF JobsFit, ThreadsFit, Integrity
  <1>5. CASE Unbind(w)
    <2>1. /\ UNCHANGED <<have, disk, jobs>> /\ step' = [step EXCEPT ![w] = "wait"] /\ job' = [job EXCEPT ![w] = NoPiece]
      BY <1>5 DEF Unbind
    <2>2. QED
      BY <1>c, <1>t, <2>1 DEF JobsFit, ThreadsFit, Integrity
  <1>6. QED
    BY <1>1, <1>2, <1>3, <1>4, <1>5 DEF DownloadPiece

-----------------------------------------------------------------------------
(* The marks of requested pieces. *)

\* No reset of the active piece is queued.
Settled(s) == \A n \in 1 .. Len(s) : s[n].kind # "Clear"

\* Somebody will complete piece i, or unmark it.  A client that handed its piece over
\* still holds it as active until Clear runs, and is no owner.
Owned(i) ==
    \/ \E q \in Peers : active[q].piece = i /\ Settled(strand[q])
    \/ \E n \in 1 .. Len(jobs) : jobs[n].index = i
    \/ \E w \in Workers : job[w] = i

Marked == \A i \in requested \ have : Owned(i)

LEMMA SettledMoves ==
    ASSUME NEW s \in Seq(Handler), Settled(s)
    PROVE  /\ \A h \in Handler : h.kind # "Clear" => Settled(Append(s, h))
           /\ s # <<>> => Settled(Tail(s)) /\ Tail(s) \in Seq(Handler)
           /\ \A p : Settled(PostRead(p, s))
  <1>1. ASSUME NEW h \in Handler, h.kind # "Clear" PROVE Settled(Append(s, h))
    BY <1>1, AppendProps DEF Settled
  <1>2. ASSUME s # <<>> PROVE Settled(Tail(s)) /\ Tail(s) \in Seq(Handler)
    <2>1. /\ Tail(s) \in Seq(Handler) /\ Len(s) \in Nat /\ Len(Tail(s)) = Len(s) - 1
          /\ \A n \in 1 .. Len(Tail(s)) : Tail(s)[n] = s[n + 1]
      BY <1>2, TailProps
    <2>2. \A n \in 1 .. Len(Tail(s)) : n + 1 \in 1 .. Len(s)
      BY <2>1
    <2>3. QED
      BY <2>1, <2>2 DEF Settled
  <1>3. Signal("Read") \in Handler /\ Signal("Read").kind # "Clear"
    BY HandlerTypes DEF SignalKinds, Signal, Post
  <1>4. \A p : Settled(PostRead(p, s))
    BY <1>1, <1>3 DEF PostRead
  <1>5. QED
    BY <1>1, <1>2, <1>4

\* What the client q owns, it goes on owning.
Keeps(q) == Settled(strand[q]) => active'[q].piece = active[q].piece /\ Settled(strand'[q])

LEMMA KeptMarks ==
    ASSUME Marked, UNCHANGED <<have, jobs, job>>, NEW p \in Peers,
           \A q \in Peers \ {p} : Keeps(q),
           \A i \in requested' \ have : \/ i \in requested /\ (Settled(strand[p]) /\ active[p].piece = i => Keeps(p))
                                        \/ active'[p].piece = i /\ Settled(strand'[p])
    PROVE  Marked'
  <1> SUFFICES ASSUME NEW i \in requested' \ have PROVE Owned(i)'
    BY DEF Marked
  <1>1. CASE active'[p].piece = i /\ Settled(strand'[p])
    BY <1>1 DEF Owned, Settled
  <1>2. CASE i \in requested /\ (Settled(strand[p]) /\ active[p].piece = i => Keeps(p))
    <2>1. Owned(i)
      BY <1>2 DEF Marked
    <2>2. CASE \E q \in Peers : active[q].piece = i /\ Settled(strand[q])
      <3>1. PICK q \in Peers : active[q].piece = i /\ Settled(strand[q])
        BY <2>2
      <3>2. Keeps(q)
        BY <1>2, <3>1
      <3>3. active'[q].piece = i /\ Settled(strand'[q])
        BY <3>1, <3>2 DEF Keeps
      <3>4. QED
        BY <3>3 DEF Owned, Settled
    <2>3. CASE ~ \E q \in Peers : active[q].piece = i /\ Settled(strand[q])
      BY <2>1, <2>3 DEF Owned
    <2>4. QED
      BY <2>2, <2>3
  <1>3. QED
    BY <1>1, <1>2

\* A message, a timer or the end of the connection takes no piece away.
LEMMA EnvironmentKeeps ==
    ASSUME TypeOK, NEW p \in Peers, Environment(p)
    PROVE  requested' = requested /\ UNCHANGED <<have, jobs, job>> /\ \A q \in Peers : Keeps(q)
  <1>1. UNCHANGED <<have, jobs, job, requested, active>>
    BY DEF Environment, Access, RemoteServes, RemoteDisturbs, Deliver, PieceTimerFires, KeepAliveTimerFires, Disconnect,
           masterVars, workerVars, pieceVars
  <1>2. \/ strand' = strand
        \/ \E h \in Handler : h.kind # "Clear" /\ strand' = [strand EXCEPT ![p] = Append(@, h)]
    <2>1. \A k \in SignalKinds : Signal(k) \in Handler /\ Signal(k).kind = k
      BY HandlerTypes DEF Signal, Post
    <2>2. CASE Access(p)
      BY <2>1, <2>2 DEF Access, SignalKinds
    <2>3. ASSUME NEW m \in Handler, m.kind \in MessageKinds, Deliver(p, m)
          PROVE  \E h \in Handler : h.kind # "Clear" /\ strand' = [strand EXCEPT ![p] = Append(@, h)]
      BY <2>3 DEF Deliver, MessageKinds
    <2>4. \A r \in Answerable(p), g \in BOOLEAN :
              PieceMsg(r[1], r[2], g) \in Handler /\ PieceMsg(r[1], r[2], g).kind = "piece"
      <3>1. wire[p] \subseteq Pieces \X Nat
        BY ClientTypes
      <3>2. QED
        BY <3>1, HandlerTypes DEF Answerable, PieceMsg
    <2>5. \A i \in RemoteHas[p] : Post("have", i) \in Handler /\ Post("have", i).kind = "have"
      BY HandlerTypes, RemoteHasAssumption DEF PieceKinds, Post
    <2>6. CASE RemoteServes(p)
      BY <2>1, <2>3, <2>4, <2>6 DEF RemoteServes, SignalKinds, MessageKinds
    <2>7. CASE RemoteDisturbs(p)
      BY <2>1, <2>3, <2>4, <2>5, <2>7 DEF RemoteDisturbs, SignalKinds, MessageKinds
    <2>8. CASE PieceTimerFires(p) \/ KeepAliveTimerFires(p)
      BY <2>1, <2>8 DEF PieceTimerFires, KeepAliveTimerFires, SignalKinds
    <2>9. CASE Disconnect(p)
      BY <2>9 DEF Disconnect
    <2>10. QED
      BY <2>2, <2>6, <2>7, <2>8, <2>9 DEF Environment
  <1>3. strand \in [Peers -> Seq(Handler)]
    BY DEF TypeOK, StrandType
  <1>4. ASSUME NEW q \in Peers, Settled(strand[q]) PROVE Settled(strand'[q])
    <2>1. strand'[q] = strand[q] \/ \E h \in Handler : h.kind # "Clear" /\ strand'[q] = Append(strand[q], h)
      BY <1>2, <1>3
    <2>2. QED
      BY <1>3, <1>4, <2>1, SettledMoves
  <1>5. QED
    BY <1>1, <1>4 DEF Keeps

\* Neither does a message handled.
LEMMA HandleResponseKeeps ==
    ASSUME TypeOK, NEW p \in Peers, HandleResponse(p)
    PROVE  requested' = requested /\ UNCHANGED <<have, jobs, job>> /\ \A q \in Peers : Keeps(q)
  <1>t. strand \in [Peers -> Seq(Handler)] /\ strand[p] \in Seq(Handler) /\ busy[p] \in BusySet
    BY DEF TypeOK, StrandType
  <1>1. UNCHANGED <<have, jobs, job, requested, active>>
    BY DEF HandleResponse, HandleChoke, HandleUnchoke, HandleInterested, HandleHave, HandleBitfield, HandlePiece, PostBlock,
           masterVars, workerVars, pieceVars
  <1>2. \A q \in Peers \ {p} : strand'[q] = strand[q]
    BY <1>t DEF HandleResponse, HandleChoke, HandleUnchoke, HandleInterested, HandleHave, HandleBitfield, HandlePiece, PostBlock
  <1>3. ASSUME Settled(strand[p]) PROVE Settled(strand'[p])
    <2>1. CASE \E k : Runs(p, k)
      <3>1. strand[p] # <<>> /\ Head(strand[p]) \in Handler
        BY <1>t, <2>1, TailProps DEF Runs
      <3>2. Settled(Tail(strand[p])) /\ Tail(strand[p]) \in Seq(Handler) /\ Settled(PostRead(p, Tail(strand[p])))
        BY <1>t, <1>3, <3>1, SettledMoves
      <3>3. ASSUME NEW h \in Handler, h.kind # "Clear"
            PROVE  Settled(PostRead(p, Append(Tail(strand[p]), h)))
        <4>1. Append(Tail(strand[p]), h) \in Seq(Handler)
          BY <3>2, AppendProps
        <4>2. QED
          BY <3>2, <3>3, <4>1, SettledMoves
      <3>4. Signal("Choked") \in Handler /\ Signal("Choked").kind # "Clear"
        BY HandlerTypes DEF SignalKinds, Signal, Post
      <3>5. CASE HandleChoke(p)
        BY <1>t, <3>3, <3>4, <3>5 DEF HandleChoke
      <3>6. CASE HandleUnchoke(p) \/ HandleInterested(p) \/ HandleHave(p) \/ HandleBitfield(p)
        BY <1>t, <3>2, <3>6 DEF HandleUnchoke, HandleInterested, HandleHave, HandleBitfield
      <3>7. CASE HandlePiece(p)
        <4> DEFINE h == Post("Cancel", Head(strand[p]).piece)
        <4>1. h \in Handler /\ h.kind # "Clear"
          BY <3>1, <3>7, HandlerTypes DEF HandlePiece, Runs, PieceKinds, Post
        <4>2. strand'[p] \in {PostRead(p, Tail(strand[p])), PostRead(p, Append(Tail(strand[p]), h)), Tail(strand[p])}
          BY <1>t, <3>7 DEF HandlePiece
        <4> HIDE DEF h
        <4>3. QED
          BY <3>2, <3>3, <4>1, <4>2
      <3>8. CASE PostBlock(p)
        BY <2>1, <3>8 DEF PostBlock, Runs, Idle, Rest
      <3>9. QED
        BY <3>5, <3>6, <3>7, <3>8 DEF HandleResponse
    <2>2. CASE PostBlock(p)
      <3> DEFINE h == [busy[p].msg EXCEPT !.kind = "Block"]
      <3>1. h \in Handler /\ h.kind # "Clear"
        <4>1. busy[p].msg \in Handler /\ busy[p].msg.kind = "piece"
          BY <1>t, <2>2 DEF PostBlock, BusySet
        <4>2. QED
          BY <4>1, HandlerTypes DEF PieceKinds
      <3>2. strand'[p] = PostRead(p, Append(strand[p], h))
        BY <1>t, <2>2 DEF PostBlock
      <3> HIDE DEF h
      <3>3. Append(strand[p], h) \in Seq(Handler) /\ Settled(Append(strand[p], h))
        BY <1>t, <1>3, <3>1, AppendProps, SettledMoves
      <3>4. QED
        BY <3>2, <3>3, SettledMoves
    <2>3. QED
      BY <2>1, <2>2 DEF HandleResponse, HandleChoke, HandleUnchoke, HandleInterested, HandleHave, HandleBitfield, HandlePiece
  <1>4. QED
    BY <1>1, <1>2, <1>3 DEF Keeps

\* A handler that drops the active piece unmarks it, or the piece was handed over or is done.
LEMMA RunHandlerMarks ==
    ASSUME Calm, TypeOK, ReadChain, Everyone, Marked, NEW p \in Peers, RunHandler(p)
    PROVE  Marked'
  <1> DEFINE s == strand[p]
             t == Tail(s)
  <1>t. /\ strand \in [Peers -> Seq(Handler)] /\ active \in [Peers -> ActiveSet] /\ s \in Seq(Handler)
        /\ jobs \in Seq(JobSet)
    BY DEF TypeOK, StrandType, PieceType, WorkerType
  <1>1. CASE RunBlock(p)
    <2>1. /\ active'[p].piece = active[p].piece
          /\ \A q \in Peers \ {p} : active'[q] = active[q] /\ strand'[q] = strand[q]
          /\ \/ /\ jobs' = jobs /\ \A n \in 1 .. Len(strand'[p]) : strand'[p][n].kind # "Clear"
             \/ \E j \in JobSet : j.index = active[p].piece /\ jobs' = Append(jobs, j)
      BY <1>1, RunBlockCalm
    <2>2. UNCHANGED <<have, requested, job>>
      BY <1>1 DEF RunBlock, masterVars
    <2>3. \A q \in Peers \ {p} : Keeps(q)
      BY <2>1 DEF Keeps
    <2>4. CASE jobs' = jobs /\ \A n \in 1 .. Len(strand'[p]) : strand'[p][n].kind # "Clear"
      <3>1. Keeps(p)
        BY <2>1, <2>4 DEF Keeps, Settled
      <3>2. QED
        BY <2>2, <2>3, <2>4, <3>1, KeptMarks
    <2>5. CASE \E j \in JobSet : j.index = active[p].piece /\ jobs' = Append(jobs, j)
      <3>1. PICK j \in JobSet : j.index = active[p].piece /\ jobs' = Append(jobs, j)
        BY <2>5
      <3>2. /\ Len(jobs) \in Nat /\ Len(jobs') = Len(jobs) + 1 /\ jobs'[Len(jobs) + 1] = j
            /\ \A n \in 1 .. Len(jobs) : jobs'[n] = jobs[n]
        BY <1>t, <3>1, AppendProps
      <3> SUFFICES ASSUME NEW i \in requested \ have PROVE Owned(i)'
        BY <2>2 DEF Marked
      <3>3. Owned(i)
        BY DEF Marked
      <3>4. CASE i = active[p].piece
        <4>1. Len(jobs) + 1 \in 1 .. Len(jobs') /\ jobs'[Len(jobs) + 1].index = i
          BY <3>1, <3>2, <3>4
        <4>2. QED
          BY <4>1 DEF Owned
      <3>5. CASE i # active[p].piece /\ \E q \in Peers : active[q].piece = i /\ Settled(strand[q])
        <4>1. PICK q \in Peers : active[q].piece = i /\ Settled(strand[q]) /\ q # p
          BY <3>5
        <4>2. active'[q].piece = i /\ Settled(strand'[q])
          BY <2>1, <4>1
        <4>3. QED
          BY <4>2 DEF Owned, Settled
      <3>6. CASE \E n \in 1 .. Len(jobs) : jobs[n].index = i
        <4>1. PICK n \in 1 .. Len(jobs) : jobs[n].index = i
          BY <3>6
        <4>2. n \in 1 .. Len(jobs') /\ jobs'[n].index = i
          BY <3>2, <4>1
        <4>3. QED
          BY <4>2 DEF Owned
      <3>7. CASE \E w \in Workers : job[w] = i
        BY <2>2, <3>7 DEF Owned
      <3>8. QED
        BY <3>3, <3>4, <3>5, <3>6, <3>7 DEF Owned
    <2>6. QED
      BY <2>1, <2>4, <2>5
  <1>2. CASE RunRead(p) \/ RunCancelCheck(p)
    <2>1. UNCHANGED <<have, requested, jobs, job, active>> /\ \A q \in Peers \ {p} : strand'[q] = strand[q]
      BY <1>2, <1>t DEF RunRead, RunCancelCheck, masterVars, workerVars, pieceVars
    <2>2. s # <<>> /\ Head(s) \in Handler /\ (RunCancelCheck(p) => Head(s).kind = "CancelCheck")
      BY <1>2, <1>t, TailProps DEF RunRead, RunCancelCheck, Runs
    <2>3. strand'[p] = t \/ (RunCancelCheck(p) /\ strand'[p] = Append(t, Post("Cancel", Head(s).piece)))
      BY <1>2, <1>t DEF RunRead, RunCancelCheck
    <2>4. RunCancelCheck(p) => Post("Cancel", Head(s).piece) \in Handler /\ Post("Cancel", Head(s).piece).kind # "Clear"
      BY <2>2, HandlerTypes DEF PieceKinds, Post
    <2>5. Keeps(p)
      <3>1. SUFFICES ASSUME Settled(s) PROVE Settled(strand'[p])
        BY <2>1 DEF Keeps
      <3>2. Settled(t) /\ t \in Seq(Handler)
        BY <1>t, <2>2, <3>1, SettledMoves
      <3> HIDE DEF t
      <3>3. QED
        BY <2>3, <2>4, <3>2, SettledMoves
    <2>6. \A q \in Peers \ {p} : Keeps(q)
      BY <2>1 DEF Keeps
    <2>7. QED
      BY <2>1, <2>5, <2>6, KeptMarks
  <1>3. CASE RunChoked(p)
    <2>1. requested' = requested \ {active[p].piece} /\ UNCHANGED <<have, jobs, job>> /\ \A q \in Peers \ {p} : Keeps(q)
      BY <1>3, <1>t DEF RunChoked, Keeps, workerVars
    <2>2. QED
      BY <2>1, KeptMarks
  <1>4. CASE RunClear(p)
    <2>1. requested' = requested /\ UNCHANGED <<have, jobs, job>> /\ \A q \in Peers \ {p} : Keeps(q)
      BY <1>4, <1>t DEF RunClear, Keeps, masterVars, workerVars
    <2>2. ~ Settled(s)
      <3>1. s # <<>> /\ Head(s).kind = "Clear"
        BY <1>4 DEF RunClear, Runs
      <3>2. 1 \in 1 .. Len(s) /\ Head(s) = s[1]
        BY <1>t, <3>1, SeqFacts
      <3>3. QED
        BY <3>1, <3>2 DEF Settled
    <2>3. QED
      BY <2>1, <2>2, KeptMarks
  <1>5. CASE RunCancel(p)
    <2>1. requested' = requested /\ UNCHANGED <<have, jobs, job>> /\ \A q \in Peers \ {p} : Keeps(q)
      BY <1>5, <1>t DEF RunCancel, Keeps, masterVars, workerVars
    <2>2. Head(s).piece \in have
      <3>1. Runs(p, "Cancel")
        BY <1>5 DEF RunCancel
      <3>2. /\ Fit(s, Idle, active[p], reading[p], choked[p], wire[p], have) /\ Head(s).kind = "Cancel" /\ s # <<>>
        BY <3>1, RunsFit
      <3>3. 1 \in 1 .. Len(s) /\ Head(s) = s[1]
        BY <1>t, <3>2, SeqFacts
      <3>4. CancelsDone(s, have)
        BY <3>2 DEF Fit
      <3>5. QED
        BY <3>2, <3>3, <3>4 DEF CancelsDone
    <2>3. active[p].piece # Head(s).piece => Keeps(p)
      <3>1. active'[p] = IF active[p].piece = Head(s).piece THEN NoActive ELSE active[p]
        BY <1>5, <1>t DEF RunCancel
      <3>2. s # <<>> /\ strand'[p] = t
        BY <1>5, <1>t DEF RunCancel, Runs
      <3>3. Settled(s) => Settled(t)
        BY <1>t, <3>2, SettledMoves
      <3>4. QED
        BY <3>1, <3>2, <3>3 DEF Keeps
    <2>4. QED
      BY <2>1, <2>2, <2>3, KeptMarks
  <1>6. CASE RunTry(p) \/ RunExpired(p) \/ RunTimeout(p) \/ RunKeepAlive(p)
    <2>1. PICK k \in {"Try", "Expired", "Timeout", "KeepAlive"} : Runs(p, k)
      BY <1>6 DEF RunTry, RunExpired, RunTimeout, RunKeepAlive
    <2>2. /\ Fit(s, Idle, active[p], reading[p], choked[p], wire[p], have) /\ Head(s).kind = k /\ s # <<>>
      BY <2>1, RunsFit
    <2>3. 1 \in 1 .. Len(s) /\ Head(s) = s[1]
      BY <1>t, <2>2, SeqFacts
    <2>4. QED
      BY <2>1, <2>2, <2>3 DEF Fit, NoTimers
  <1>7. QED
    BY <1>1, <1>2, <1>3, <1>4, <1>5, <1>6 DEF RunHandler

\* A piece marked becomes the active piece of the client that marks it.
LEMMA TryMarks ==
    ASSUME TypeOK, Everyone, Marked, NEW p \in Peers, TryToRequestPiece(p)
    PROVE  Marked'
  <1> DEFINE s == strand[p]
  <1>t. /\ strand \in [Peers -> Seq(Handler)] /\ active \in [Peers -> ActiveSet] /\ s \in Seq(Handler)
        /\ busy[p] \in BusySet /\ active[p] \in ActiveSet
    BY DEF TypeOK, StrandType, PieceType
  <1>1. UNCHANGED <<have, jobs, job>> /\ \A q \in Peers \ {p} : Keeps(q)
    BY <1>t DEF TryToRequestPiece, TryNothing, TryChoose, TryRequest, TryContinue, Return, Keeps, masterVars, workerVars, pieceVars
  <1>2. Settled(s) => Settled(strand'[p])
    <2>1. strand'[p] = s \/ strand'[p] = PostRead(p, s)
      BY <1>t DEF TryToRequestPiece, TryNothing, TryChoose, TryRequest, TryContinue, Return
    <2>2. QED
      BY <1>t, <2>1, SettledMoves
  <1>3. CASE TryRequest(p)
    <2> DEFINE i == busy[p].msg.piece
    <2>1. /\ busy[p].at = "chosen" /\ active'[p] = SendRequests(Fresh(i))
          /\ requested' \subseteq requested \cup {i} /\ Transmit(p, RequestSet(Fresh(i)))
      BY <1>3, <1>t DEF TryRequest
    <2>2. i \in Pieces
      BY <1>t, <2>1, BusyFields
    <2>3. active'[p].piece = i
      <3>1. Fresh(i) \in ActiveSet /\ Fresh(i).piece = i
        BY <2>2, FreshType
      <3>2. QED
        BY <2>1, <3>1 DEF SendRequests, ActiveSet
    <2>4. Fit(s, busy[p], active[p], reading[p], choked[p], wire[p], have)
      BY DEF Everyone, Here
    <2>5. Settled(s)
      <3>1. ClearSettled(s, busy[p], active[p])
        BY <2>4 DEF Fit
      <3>2. QED
        BY <2>1, <3>1 DEF ClearSettled, Settled
    <2>6. active[p].piece = NoPiece
      BY <2>1, <2>4 DEF Fit, ChosenNew
    <2>7. \A j \in requested' \ have : \/ j \in requested /\ (Settled(s) /\ active[p].piece = j => Keeps(p))
                                       \/ active'[p].piece = j /\ Settled(strand'[p])
      <3>1. requested \subseteq Pieces
        BY DEF TypeOK, MasterType
      <3>2. QED
        BY <1>2, <2>1, <2>3, <2>5, <2>6, <3>1, PiecesAssumption
    <2>8. QED
      BY <1>1, <2>7, KeptMarks
  <1>4. CASE ~TryRequest(p)
    <2>1. requested' = requested
      BY <1>4 DEF TryToRequestPiece, TryNothing, TryChoose, TryContinue, masterVars
    <2>2. active'[p].piece = active[p].piece
      BY <1>4, <1>t DEF TryToRequestPiece, TryNothing, TryChoose, TryContinue, pieceVars, SendRequests, ActiveSet
    <2>3. Keeps(p)
      BY <1>2, <2>2 DEF Keeps
    <2>4. QED
      BY <1>1, <2>1, <2>3, KeptMarks
  <1>5. QED
    BY <1>3, <1>4

\* A thread that takes a job owns its piece until it unmarks it.
LEMMA WorkerMarks ==
    ASSUME TypeOK, ThreadsFit, Marked, NEW w \in Workers, DownloadPiece(w)
    PROVE  Marked'
  <1>t. /\ requested \subseteq Pieces /\ jobs \in Seq(JobSet) /\ job \in [Workers -> Content]
        /\ strand \in [Peers -> Seq(Handler)]
    BY DEF TypeOK, MasterType, WorkerType, StrandType
  <1>1. have \subseteq have' /\ requested' \subseteq requested /\ active' = active
    BY DEF DownloadPiece, VerifyAndWrite, Have, HaveLost, CountPiece, EndGameStep, Announce, Unbind, pieceVars
  <1>2. ASSUME NEW q \in Peers, Settled(strand[q]) PROVE Settled(strand'[q])
    <2>1. CASE EndGameStep(w)
      <3> DEFINE h == Post("CancelCheck", job[w])
      <3>1. h \in Handler /\ h.kind # "Clear"
        BY <2>1, HandlerTypes DEF EndGameStep, TypeOK, WorkerType, PieceKinds, Post
      <3>2. strand'[q] = strand[q] \/ strand'[q] = Append(strand[q], h)
        BY <2>1 DEF EndGameStep, PostToAll
      <3> HIDE DEF h
      <3>3. QED
        BY <1>t, <1>2, <3>1, <3>2, SettledMoves
    <2>2. CASE ~EndGameStep(w)
      BY <1>2, <2>2 DEF DownloadPiece, VerifyAndWrite, Have, HaveLost, CountPiece, Announce, Unbind, strandVars
    <2>3. QED
      BY <2>1, <2>2
  <1> SUFFICES ASSUME NEW i \in requested' \ have' PROVE Owned(i)'
    BY DEF Marked
  <1>3. Owned(i) /\ i \in Pieces
    BY <1>t, <1>1 DEF Marked
  <1>4. CASE \E q \in Peers : active[q].piece = i /\ Settled(strand[q])
    <2>1. PICK q \in Peers : active[q].piece = i /\ Settled(strand[q])
      BY <1>4
    <2>2. active'[q].piece = i /\ Settled(strand'[q])
      BY <1>1, <1>2, <2>1
    <2>3. QED
      BY <2>2 DEF Owned, Settled
  <1>5. CASE VerifyAndWrite(w)
    <2>1. /\ jobs # <<>> /\ jobs' = Tail(jobs) /\ step[w] = "wait"
          /\ job' = [job EXCEPT ![w] = Head(jobs).index]
      BY <1>5 DEF VerifyAndWrite
    <2>2. /\ Len(jobs) \in Nat /\ Len(jobs') = Len(jobs) - 1 /\ Head(jobs) = jobs[1]
          /\ \A n \in 1 .. Len(jobs') : jobs'[n] = jobs[n + 1]
      BY <1>t, <2>1, TailProps
    <2>3. CASE \E n \in 1 .. Len(jobs) : jobs[n].index = i
      <3>1. PICK n \in 1 .. Len(jobs) : jobs[n].index = i
        BY <2>3
      <3>2. CASE n = 1
        <4>1. job'[w] = i
          BY <1>t, <2>1, <2>2, <3>1, <3>2
        <4>2. QED
          BY <4>1 DEF Owned
      <3>3. CASE n # 1
        <4>1. n - 1 \in 1 .. Len(jobs') /\ (n - 1) + 1 = n
          BY <2>2, <3>1, <3>3
        <4>2. jobs'[n - 1].index = i
          BY <2>2, <3>1, <4>1
        <4>3. QED
          BY <4>1, <4>2 DEF Owned
      <3>4. QED
        BY <3>2, <3>3
    <2>4. CASE \E v \in Workers : job[v] = i
      <3>1. PICK v \in Workers : job[v] = i
        BY <2>4
      <3>2. v # w
        BY <1>3, <2>1, <3>1, PiecesAssumption DEF ThreadsFit
      <3>3. job'[v] = i
        BY <1>t, <2>1, <3>1, <3>2
      <3>4. QED
        BY <3>3 DEF Owned
    <2>5. QED
      BY <1>3, <1>4, <2>3, <2>4 DEF Owned
  <1>6. CASE Unbind(w)
    <2>1. i # job[w] /\ jobs' = jobs /\ job' = [job EXCEPT ![w] = NoPiece]
      BY <1>6 DEF Unbind
    <2>2. CASE \E v \in Workers : job[v] = i
      <3>1. PICK v \in Workers : job[v] = i
        BY <2>2
      <3>2. job'[v] = i
        BY <1>t, <2>1, <3>1
      <3>3. QED
        BY <3>2 DEF Owned
    <2>3. QED
      BY <1>3, <1>4, <2>1, <2>2 DEF Owned
  <1>7. CASE ~VerifyAndWrite(w) /\ ~Unbind(w)
    <2>1. UNCHANGED <<jobs, job>>
      BY <1>7 DEF DownloadPiece, Have, HaveLost, CountPiece, EndGameStep, Announce
    <2>2. QED
      BY <1>3, <1>4, <2>1 DEF Owned
  <1>8. QED
    BY <1>5, <1>6, <1>7

-----------------------------------------------------------------------------
CalmInv == Everyone /\ JobsFit /\ ThreadsFit /\ Integrity /\ NoCrash /\ Marked

LEMMA InitCalm == Init => CalmInv
  <1> SUFFICES ASSUME Init PROVE CalmInv
    OBVIOUS
  <1>1. ASSUME NEW q \in Peers PROVE Here(q)
    <2>1. /\ strand[q] = <<>> /\ busy[q] = Idle /\ active[q] = NoActive /\ wire[q] = {}
      BY DEF Init
    <2>2. NoActive.piece = NoPiece /\ Idle.at = "idle"
      BY RestFacts DEF NoActive
    <2>3. Len(strand[q]) = 0
      BY <2>1
    <2>4. /\ NoTimers(strand[q]) /\ CancelsDone(strand[q], have) /\ ChokedFirst(strand[q], busy[q], reading[q], choked[q])
          /\ ClearSettled(strand[q], busy[q], active[q]) /\ BlockFits(strand[q], active[q])
          /\ AnswersFit(strand[q], active[q], have)
      BY <2>3 DEF NoTimers, CancelsDone, ChokedFirst, ClearSettled, BlockFits, AnswersFit
    <2>5. /\ CheckedFits(strand[q], busy[q], active[q])
          /\ ChosenNew(strand[q], busy[q], active[q], choked[q], wire[q])
          /\ RoomLeft(strand[q], busy[q], active[q], wire[q])
      BY <2>1, <2>2 DEF CheckedFits, ChosenNew, RoomLeft
    <2>6. AskedFit(active[q], wire[q], have)
      BY <2>1, AskedNone DEF AskedFit
    <2>7. QED
      BY <2>1, <2>4, <2>5, <2>6 DEF Here, Fit
  <1>2. Everyone
    BY <1>1 DEF Everyone
  <1>3. JobsFit /\ ThreadsFit /\ Integrity /\ NoCrash /\ Marked
    BY DEF Init, JobsFit, ThreadsFit, Integrity, NoCrash, Marked
  <1>4. QED
    BY <1>2, <1>3 DEF CalmInv

LEMMA StepCalm ==
    ASSUME Calm
    PROVE  TypeOK /\ ReadChain /\ CalmInv /\ [Next]_vars => CalmInv'
  <1> SUFFICES ASSUME TypeOK, ReadChain, CalmInv, [Next]_vars PROVE CalmInv'
    OBVIOUS
  <1> USE DEF CalmInv
  <1>1. ASSUME NEW p \in Peers, Environment(p) \/ Strand(p) PROVE CalmInv'
    <2>1. Everyone'
      BY <1>1, EnvironmentCalm, HandleResponseCalm, RunHandlerCalm, TryCalm DEF Strand
    <2>2. JobsFit' /\ ThreadsFit' /\ Integrity' /\ NoCrash'
      BY <1>1, ClientDisk
    <2>3. Marked'
      <3>1. CASE Environment(p) \/ HandleResponse(p)
        <4>1. requested' = requested /\ UNCHANGED <<have, jobs, job>> /\ \A q \in Peers : Keeps(q)
          BY <3>1, EnvironmentKeeps, HandleResponseKeeps
        <4>2. QED
          BY <4>1, KeptMarks
      <3>2. CASE RunHandler(p) \/ TryToRequestPiece(p)
        BY <3>2, RunHandlerMarks, TryMarks
      <3>3. QED
        BY <1>1, <3>1, <3>2 DEF Strand
    <2>4. QED
      BY <2>1, <2>2, <2>3
  <1>2. ASSUME NEW w \in Workers, DownloadPiece(w) PROVE CalmInv'
    BY <1>2, WorkerCalm, WorkerDisk, WorkerMarks
  <1>3. CASE UNCHANGED vars
    <2>1. UNCHANGED <<have, requested, disk, jobs, job, step, strand, busy, active, reading, choked, wire, crashed>>
      BY <1>3 DEF vars, masterVars, workerVars, statusVars, pieceVars, strandVars
    <2>2. Everyone'
      BY <2>1 DEF Everyone, Here
    <2>3. QED
      BY <2>1, <2>2 DEF JobsFit, ThreadsFit, Integrity, NoCrash, Marked, Owned
  <1>4. QED
    BY <1>1, <1>2, <1>3 DEF Next

LEMMA CalmKept == ASSUME Calm PROVE Spec => [](TypeOK /\ CalmInv)
  <1>1. QED
    BY StepCalm, InitCalm, TypeCorrect, InitChained, StepChained, PTL DEF Spec

\* A piece announced as done has its own bytes in its place on disk, whatever bytes the
\* remote peers send, whenever they choke or vanish and however the strands and the worker
\* threads interleave: OnPieceBlock stores every block in the piece it belongs to.
THEOREM Intact == ASSUME Calm PROVE Spec => []Integrity
  <1>1. CalmInv => Integrity
    BY DEF CalmInv
  <1>2. QED
    BY <1>1, CalmKept, PTL

\* The lambda of OnPieceBlock never runs without an active piece or past its last block,
\* for pieces of any number of blocks, none included, and any window, as long as a remote
\* leaves requests unanswered that reach past the end of the piece or ask for nothing.
THEOREM NeverCrashes == ASSUME Calm PROVE Spec => []NoCrash
  <1>1. CalmInv => NoCrash
    BY DEF CalmInv
  <1>2. QED
    BY <1>1, CalmKept, PTL

\* A request a remote can still answer is for the active piece, or for a piece done since:
\* ClearAndTryRequest, OnChoked and cancel_piece drop no piece whose answers are to come.
THEOREM RequestsBelong == ASSUME Calm PROVE Spec => []RequestsForActive
  <1>1. ASSUME TypeOK, CalmInv PROVE RequestsForActive
    <2> SUFFICES ASSUME NEW p \in Peers, NEW r \in Answerable(p) PROVE r[1] \in have \/ r[1] = active[p].piece
      BY DEF RequestsForActive
    <2>1. r \in wire[p] /\ wire[p] \subseteq Pieces \X Nat /\ r[2] < Served(r[1])
      BY <1>1, ClientTypes DEF Answerable, Calm
    <2>2. r[1] \in Pieces /\ r[2] \in Nat /\ r = <<r[1], r[2]>>
      BY <2>1
    <2>3. Served(r[1]) \in Nat
      BY <2>2, ServedFacts
    <2>4. r[2] \in Asked(wire[p], r[1])
      BY <2>1, <2>2, <2>3 DEF Asked
    <2>5. AskedFit(active[p], wire[p], have)
      BY <1>1 DEF CalmInv, Everyone, Here, Fit
    <2>6. QED
      BY <2>2, <2>4, <2>5 DEF AskedFit
  <1>2. QED
    BY <1>1, CalmKept, PTL

\* No connection is given up.
AllUp == \A p \in Peers : conn[p] # "down"

LEMMA StaysUp == ASSUME "disconnect" \notin Events PROVE TypeOK /\ AllUp /\ [Next]_vars => AllUp'
  <1> SUFFICES ASSUME TypeOK, AllUp, [Next]_vars PROVE AllUp'
    OBVIOUS
  <1>1. CASE UNCHANGED conn
    BY <1>1 DEF AllUp
  <1>2. ASSUME NEW p \in Peers, Access(p) PROVE AllUp'
    BY <1>2 DEF Access, AllUp, TypeOK, StatusType
  <1>3. ASSUME NEW p \in Peers, Environment(p) PROVE AllUp'
    BY <1>1, <1>2, <1>3
       DEF Environment, RemoteServes, RemoteDisturbs, Deliver, PieceTimerFires, KeepAliveTimerFires, Disconnect, statusVars
  <1>4. ASSUME NEW p \in Peers, HandleResponse(p) PROVE UNCHANGED conn
    BY <1>4
       DEF HandleResponse, HandleChoke, HandleUnchoke, HandleInterested, HandleHave, HandleBitfield, HandlePiece, PostBlock, statusVars
  <1>5. ASSUME NEW p \in Peers, RunHandler(p) PROVE UNCHANGED conn
    BY <1>5
       DEF RunHandler, RunRead, RunBlock, RunChoked, RunClear, RunTry, RunCancelCheck, RunCancel, RunExpired, RunTimeout,
           RunKeepAlive, statusVars
  <1>6. ASSUME NEW p \in Peers, TryToRequestPiece(p) PROVE UNCHANGED conn
    BY <1>6 DEF TryToRequestPiece, TryNothing, TryChoose, TryRequest, TryContinue, statusVars
  <1>7. ASSUME NEW w \in Workers, DownloadPiece(w) PROVE UNCHANGED conn
    BY <1>7 DEF DownloadPiece, VerifyAndWrite, Have, HaveLost, CountPiece, EndGameStep, Announce, Unbind, statusVars
  <1>8. CASE UNCHANGED vars
    BY <1>1, <1>8 DEF vars, statusVars
  <1>9. QED
    BY <1>1, <1>3, <1>4, <1>5, <1>6, <1>7, <1>8 DEF Next, Strand

\* While no connection fails, a piece marked in requested_pieces_ and not done is the active
\* piece of a living client, or in a write job: no mark is left behind that would keep the
\* piece from ever being chosen.  Disconnect leaves one.
THEOREM MarksOwned == ASSUME Calm, "disconnect" \notin Events PROVE Spec => []RequestedHasOwner
  <1>1. CalmInv /\ AllUp => RequestedHasOwner
    <2> SUFFICES ASSUME CalmInv, AllUp, NEW i \in requested \ have
                 PROVE  \/ \E p \in Peers : Alive(p) /\ active[p].piece = i
                        \/ \E n \in 1 .. Len(jobs) : jobs[n].index = i
                        \/ \E w \in Workers : job[w] = i
      BY DEF RequestedHasOwner
    <2>1. Owned(i)
      BY DEF CalmInv, Marked
    <2>2. \A p \in Peers : Alive(p)
      BY DEF AllUp, Alive
    <2>3. QED
      BY <2>1, <2>2 DEF Owned
  <1>2. Init => AllUp
    BY DEF Init, AllUp
  <1>3. Spec => [](TypeOK /\ CalmInv)
    BY CalmKept
  <1>4. QED
    BY <1>1, <1>2, <1>3, StaysUp, PTL DEF Spec

-----------------------------------------------------------------------------
(* The request window. *)

\* What was asked for is all of a piece of one window, or a number of whole windows.
Rounds(a) ==
    LET n == BlockCount[a.piece] IN
    \/ n <= Window /\ a.begin \in {0, n}
    \/ n > Window /\ \E k \in Nat : a.begin = k * Window

\* What is left to ask for of a piece that ends with a window is such a number, too.
RoundsLeft(a) ==
    LET n == BlockCount[a.piece] IN
    EndsWithWindow(a.piece) => n <= Window \/ \E k \in Nat : n - a.begin = k * Window

WholeWindows(a) == a.piece # NoPiece => Rounds(a) /\ RoundsLeft(a)

InRange(wr) == \A r \in wr : EndsWithWindow(r[1]) => r[2] < Served(r[1])

Ranged == \A q \in Peers : WholeWindows(active[q]) /\ InRange(wire[q])

LEMMA FullWindows ==
    ASSUME NEW k \in Nat, NEW x \in Int, x = k * Window, x # 0
    PROVE  /\ x >= Window
           /\ \E m \in Nat : x - Window = m * Window
  <1>1. Window \in Nat /\ k # 0
    BY WindowAssumption
  <1>2. k - 1 \in Nat /\ (k - 1) * Window \in Nat
    <2>1. k - 1 \in Nat
      BY <1>1
    <2>2. \A y, z \in Nat : y * z \in Nat
      OBVIOUS
    <2>3. QED
      BY <1>1, <2>1, <2>2
  <1>3. x - Window = (k - 1) * Window
    BY <1>1
  <1>4. QED
    BY <1>1, <1>2, <1>3

LEMMA Divided ==
    ASSUME NEW x \in Nat, NEW w \in Nat \ {0}, x % w = 0
    PROVE  \E k \in Nat : x = k * w
  <1>1. x \div w \in Nat /\ x = w * (x \div w) + (x % w)
    OBVIOUS
  <1>2. QED
    BY <1>1

\* The requests for the blocks B of a piece.
LEMMA RangeOf ==
    ASSUME NEW i, NEW B, EndsWithWindow(i) => \A c \in B : c < Served(i), NEW wr, wr = {<<i, c>> : c \in B}
    PROVE  InRange(wr)
  <1> SUFFICES ASSUME NEW r \in wr, EndsWithWindow(r[1]) PROVE r[2] < Served(r[1])
    BY DEF InRange
  <1>1. PICK c \in B : r = <<i, c>>
    OBVIOUS
  <1>2. r[1] = i /\ r[2] = c
    BY <1>1
  <1>3. QED
    BY <1>2

LEMMA NextWindow ==
    ASSUME NEW k \in Nat
    PROVE  \E m \in Nat : k * Window + Window = m * Window
  <1>1. Window \in Nat /\ k + 1 \in Nat
    BY WindowAssumption
  <1>2. k * Window + Window = (k + 1) * Window
    BY <1>1
  <1>3. QED
    BY <1>1, <1>2

\* A round of requests, the first one or one for a piece not yet asked for to its end.
MayAsk(a) == a.begin = 0 \/ ~AllAsked(a)

\* It adds a window, and stays inside a piece that ends with one.
LEMMA RoundInRange ==
    ASSUME NEW a \in ActiveSet, a.piece \in Pieces, WholeWindows(a), MayAsk(a)
    PROVE  WholeWindows(SendRequests(a)) /\ InRange(RequestSet(a))
  <1> DEFINE i == a.piece
             n == BlockCount[i]
             k == RequestsSent(n)
             x == SendRequests(a)
             more == a.begin .. ((a.begin + k) - 1)
  <1>1. n \in Nat /\ Window \in Nat /\ Window > 0 /\ a.begin \in Nat /\ i # NoPiece
    BY BlockCountAssumption, WindowAssumption, PiecesAssumption DEF ActiveSet
  <1>2. /\ k \in Nat /\ x.piece = i /\ x.begin = IF n = 0 THEN a.begin ELSE a.begin + k
        /\ RequestSet(a) = {<<i, c>> : c \in more}
    BY <1>1, SentFacts
  <1>3. Rounds(a) /\ RoundsLeft(a)
    BY <1>1 DEF WholeWindows
  <1>4. /\ EndsWithWindow(i) => ~Overlong(i) /\ Served(i) = n /\ n > 0
        /\ n <= Window => ~Overlong(i)
    BY ServedFacts DEF EndsWithWindow
  <1> HIDE DEF x
  <1>5. CASE n <= Window
    <2>1. a.begin = 0
      BY <1>1, <1>3, <1>4, <1>5 DEF Rounds, MayAsk, AllAsked
    <2>2. x.begin = n /\ (n > 0 => k = n)
      BY <1>1, <1>2, <1>5, <2>1 DEF RequestsSent
    <2>3. Rounds(x) /\ RoundsLeft(x)
      BY <1>2, <1>5, <2>2 DEF Rounds, RoundsLeft
    <2>4. EndsWithWindow(i) => \A c \in more : c < Served(i)
      BY <1>1, <1>4, <2>1, <2>2
    <2> HIDE DEF more
    <2>5. InRange(RequestSet(a))
      BY <1>2, <2>4, RangeOf, Zenon
    <2>6. QED
      BY <2>3, <2>5 DEF WholeWindows, x
  <1>6. CASE n > Window
    <2>1. k = Window /\ x.begin = a.begin + Window
      BY <1>1, <1>2, <1>6 DEF RequestsSent
    <2>2. Rounds(x)
      <3>1. PICK m \in Nat : a.begin = m * Window
        BY <1>1, <1>3, <1>6 DEF Rounds
      <3>2. PICK l \in Nat : m * Window + Window = l * Window
        BY NextWindow
      <3>3. x.begin = l * Window
        BY <2>1, <3>1, <3>2
      <3>4. QED
        BY <1>2, <1>6, <3>3 DEF Rounds
    <2>3. ASSUME EndsWithWindow(i)
          PROVE  RoundsLeft(x) /\ \A c \in more : c < Served(i)
      <3>1. PICK m \in Nat : n - a.begin = m * Window
        BY <1>1, <1>3, <1>6, <2>3 DEF RoundsLeft
      <3>2. n - a.begin \in Int /\ n - a.begin # 0
        BY <1>1, <1>4, <1>6, <2>3 DEF MayAsk, AllAsked
      <3>3. n - a.begin >= Window /\ \E l \in Nat : (n - a.begin) - Window = l * Window
        BY <3>1, <3>2, FullWindows
      <3>4. PICK l \in Nat : (n - a.begin) - Window = l * Window
        BY <3>3
      <3>5. n - x.begin = l * Window
        BY <1>1, <2>1, <3>4
      <3>6. \A c \in more : c < n
        BY <1>1, <2>1, <3>3
      <3>7. QED
        BY <1>2, <1>4, <2>3, <3>5, <3>6 DEF RoundsLeft
    <2>4. RoundsLeft(x)
      BY <1>2, <2>3 DEF RoundsLeft
    <2> HIDE DEF more
    <2>5. InRange(RequestSet(a))
      BY <1>2, <2>3, RangeOf, Zenon
    <2>6. QED
      BY <2>2, <2>4, <2>5 DEF WholeWindows, x
  <1>7. QED
    BY <1>1, <1>5, <1>6 DEF x

LEMMA FreshWindows ==
    ASSUME NEW i \in Pieces
    PROVE  WholeWindows(Fresh(i)) /\ MayAsk(Fresh(i))
  <1>1. Fresh(i).begin = 0 /\ Fresh(i).piece = i
    BY DEF Fresh
  <1>2. BlockCount[i] \in Nat /\ Window \in Nat /\ Window > 0 /\ BlockCount[i] - 0 = BlockCount[i] /\ 0 * Window = 0
    BY BlockCountAssumption, WindowAssumption
  <1>3. Rounds(Fresh(i))
    BY <1>1, <1>2 DEF Rounds
  <1>4. BlockCount[i] % Window = 0 => \E k \in Nat : BlockCount[i] = k * Window
    BY <1>2, WindowAssumption, Divided
  <1>5. RoundsLeft(Fresh(i))
    BY <1>1, <1>2, <1>4 DEF RoundsLeft, EndsWithWindow
  <1>6. QED
    BY <1>1, <1>3, <1>5 DEF WholeWindows, MayAsk

\* A step of the client p, the only one that changes its piece and its requests.
LEMMA RangedAlone ==
    ASSUME Ranged, NEW p \in Peers, WholeWindows(active'[p]), InRange(wire'[p]),
           \A q \in Peers \ {p} : active'[q] = active[q] /\ wire'[q] = wire[q]
    PROVE  Ranged'
  <1>1. \A q \in Peers : WholeWindows(active'[q]) /\ InRange(wire'[q])
    BY DEF Ranged
  <1>2. QED
    BY <1>1 DEF Ranged, WholeWindows, InRange

LEMMA StepRanged == TypeOK /\ Ranged /\ [Next]_vars => Ranged'
  <1> SUFFICES ASSUME TypeOK, Ranged, [Next]_vars PROVE Ranged'
    OBVIOUS
  <1>t. active \in [Peers -> ActiveSet] /\ DOMAIN wire = Peers /\ busy \in [Peers -> BusySet]
    BY DEF TypeOK, PieceType, StrandType
  <1>n. WholeWindows(NoActive) /\ InRange({})
    BY DEF WholeWindows, NoActive, InRange
  <1>r. \A q \in Peers : WholeWindows(active[q]) /\ InRange(wire[q])
    BY DEF Ranged
  <1>1. CASE UNCHANGED <<active, wire>>
    BY <1>1 DEF Ranged
  <1>2. ASSUME NEW p \in Peers, NEW m, Deliver(p, m) PROVE Ranged'
    <2>1. active' = active /\ wire'[p] \subseteq wire[p] /\ \A q \in Peers \ {p} : wire'[q] = wire[q]
      BY <1>2, <1>t DEF Deliver
    <2>2. InRange(wire'[p])
      BY <1>r, <2>1 DEF InRange
    <2>3. QED
      BY <1>r, <2>1, <2>2, RangedAlone
  <1>3. ASSUME NEW p \in Peers, Disconnect(p) \/ HandleChoke(p) PROVE Ranged'
    <2>1. active' = active /\ wire'[p] \in {wire[p], {}} /\ \A q \in Peers \ {p} : wire'[q] = wire[q]
      BY <1>3, <1>t DEF Disconnect, HandleChoke
    <2>2. QED
      BY <1>n, <1>r, <2>1, RangedAlone
  <1>4. ASSUME NEW p \in Peers, RunBlock(p) PROVE Ranged'
    <2>1. wire' = wire /\ \A q \in Peers \ {p} : active'[q] = active[q]
      BY <1>4, <1>t DEF RunBlock
    <2> DEFINE h == Head(strand[p])
               x == IF h.good THEN h.piece ELSE NoPiece
    <2>a. \/ active' = active
          \/ active' = [active EXCEPT ![p] = [active[p] EXCEPT !.count = @ + 1, !.blocks = [@ EXCEPT ![h.block + 1] = x]]]
      BY <1>4 DEF RunBlock
    <2>b. active[p] \in ActiveSet
      BY <1>t
    <2> HIDE DEF h, x
    <2>2. active'[p].piece = active[p].piece /\ active'[p].begin = active[p].begin
      <3>1. CASE active' = active
        BY <3>1
      <3>2. CASE active' = [active EXCEPT ![p] = [active[p] EXCEPT !.count = @ + 1, !.blocks = [@ EXCEPT ![h.block + 1] = x]]]
        <4>1. active'[p] = [active[p] EXCEPT !.count = @ + 1, !.blocks = [@ EXCEPT ![h.block + 1] = x]]
          BY <1>t, <3>2
        <4>2. QED
          BY <2>b, <4>1 DEF ActiveSet
      <3>3. QED
        BY <2>a, <3>1, <3>2
    <2>3. WholeWindows(active'[p])
      BY <1>r, <2>2 DEF WholeWindows, Rounds, RoundsLeft
    <2>4. QED
      BY <1>r, <2>1, <2>3, RangedAlone
  <1>5. ASSUME NEW p \in Peers, RunChoked(p) \/ RunClear(p) \/ RunCancel(p) PROVE Ranged'
    <2>1. wire' = wire /\ active'[p] \in {active[p], NoActive} /\ \A q \in Peers \ {p} : active'[q] = active[q]
      BY <1>5, <1>t DEF RunChoked, RunClear, RunCancel
    <2>2. QED
      BY <1>n, <1>r, <2>1, RangedAlone
  <1>6. ASSUME NEW p \in Peers, NEW a \in ActiveSet, a.piece \in Pieces, WholeWindows(a), MayAsk(a),
               active' = [active EXCEPT ![p] = SendRequests(a)], Transmit(p, RequestSet(a))
        PROVE  Ranged'
    <2>1. WholeWindows(SendRequests(a)) /\ InRange(RequestSet(a))
      BY <1>6, RoundInRange
    <2>2. wire'[p] = wire[p] \/ wire'[p] = wire[p] \cup RequestSet(a)
      BY <1>6, <1>t DEF Transmit
    <2>3. InRange(wire'[p])
      <3> HIDE DEF RequestSet
      <3>1. QED
        BY <1>r, <2>1, <2>2 DEF InRange
    <2>4. active'[p] = SendRequests(a) /\ \A q \in Peers \ {p} : active'[q] = active[q] /\ wire'[q] = wire[q]
      BY <1>6, <1>t DEF Transmit
    <2>5. QED
      BY <2>1, <2>3, <2>4, RangedAlone
  <1>7. ASSUME NEW p \in Peers, TryRequest(p) PROVE Ranged'
    <2> DEFINE i == busy[p].msg.piece
    <2>1. busy[p].at = "chosen" /\ active' = [active EXCEPT ![p] = SendRequests(Fresh(i))] /\ Transmit(p, RequestSet(Fresh(i)))
      BY <1>7 DEF TryRequest
    <2>2. i \in Pieces
      BY <1>t, <2>1, BusyFields
    <2>3. Fresh(i) \in ActiveSet /\ Fresh(i).piece = i /\ WholeWindows(Fresh(i)) /\ MayAsk(Fresh(i))
      BY <2>2, FreshType, FreshWindows
    <2> HIDE DEF i
    <2>4. QED
      BY <1>6, <2>1, <2>2, <2>3
  <1>8. ASSUME NEW p \in Peers, TryContinue(p) PROVE Ranged'
    <2>1. CASE AllAsked(active[p])
      BY <1>1, <1>8, <2>1 DEF TryContinue, pieceVars
    <2>2. CASE ~AllAsked(active[p])
      <3>1. active' = [active EXCEPT ![p] = SendRequests(active[p])] /\ Transmit(p, RequestSet(active[p]))
        BY <1>8, <2>2 DEF TryContinue
      <3>2. active[p] \in ActiveSet /\ active[p].piece \in Pieces
        BY <1>8, <1>t DEF TryContinue, ActiveSet, Content
      <3>3. QED
        BY <1>6, <1>r, <2>2, <3>1, <3>2 DEF MayAsk
    <2>3. QED
      BY <2>1, <2>2
  <1>9. ASSUME NEW p \in Peers, Environment(p) PROVE Ranged'
    BY <1>1, <1>2, <1>3, <1>9 DEF Environment, Access, RemoteServes, RemoteDisturbs, PieceTimerFires, KeepAliveTimerFires, pieceVars
  <1>10. ASSUME NEW p \in Peers, HandleResponse(p) PROVE Ranged'
    BY <1>1, <1>3, <1>10
       DEF HandleResponse, HandleUnchoke, HandleInterested, HandleHave, HandleBitfield, HandlePiece, PostBlock, pieceVars
  <1>11. ASSUME NEW p \in Peers, RunHandler(p) PROVE Ranged'
    BY <1>1, <1>4, <1>5, <1>11 DEF RunHandler, RunRead, RunTry, RunCancelCheck, RunExpired, RunTimeout, RunKeepAlive, pieceVars
  <1>12. ASSUME NEW p \in Peers, TryToRequestPiece(p) PROVE Ranged'
    BY <1>1, <1>7, <1>8, <1>12 DEF TryToRequestPiece, TryNothing, TryChoose, pieceVars
  <1>13. ASSUME NEW w \in Workers, DownloadPiece(w) PROVE Ranged'
    BY <1>1, <1>13 DEF DownloadPiece, VerifyAndWrite, Have, HaveLost, CountPiece, EndGameStep, Announce, Unbind, pieceVars
  <1>14. CASE UNCHANGED vars
    BY <1>1, <1>14 DEF vars, pieceVars
  <1>15. QED
    BY <1>9, <1>10, <1>11, <1>12, <1>13, <1>14 DEF Next, Strand

\* Whatever happens, TryToRequestPiece asks past the end only of a piece that goes on after
\* its last whole window, or has no byte: the loop counts down from the size of the whole
\* piece in every call, and still stops at the end of every other piece.
THEOREM InsidePieces == Spec => []PastEndOnlyBetweenWindows
  <1>1. Init => Ranged
    BY DEF Init, Ranged, WholeWindows, InRange, NoActive
  <1>2. Ranged => PastEndOnlyBetweenWindows
    BY DEF Ranged, InRange, PastEndOnlyBetweenWindows
  <1>3. QED
    BY <1>1, <1>2, StepRanged, TypeCorrect, PTL DEF Spec

-----------------------------------------------------------------------------
(***************************************************************************)
(* WindowAdvances, for one client: two may choose the same piece, and the  *)
(* mark that one of them takes back is the one the other needs.  The       *)
(* argument is a balance: the blocks stored, the answer in the strand and  *)
(* the requests on the wire add up to what was asked for, unless the       *)
(* piece is about to be dropped.  So when nothing more can come, all of    *)
(* it was stored, and the block that completed the window called           *)
(* TryToRequestPiece.                                                      *)
(***************************************************************************)
Single == \A p, q \in Peers : p = q

Has(s, k) == \E n \in 1 .. Len(s) : s[n].kind = k

\* Handler h drops the active piece i; s holds one that will.
Ends(h, i) == h.kind \in {"Choked", "Clear"} \/ (h.kind = "Cancel" /\ h.piece = i)
Ending(s, i) == \E n \in 1 .. Len(s) : Ends(s[n], i)

Reply(h, i) == h.kind \in {"piece", "Block"} /\ h.piece = i

OneReset(s) == ~(Has(s, "Choked") /\ Has(s, "Clear"))

Tally(s, b, a, wr) == Expected(a, wr) + (IF Coming(s, b, a.piece) THEN 1 ELSE 0)

\* What was asked for and will be answered.
Covered(a) == IF a.begin <= Served(a.piece) THEN a.begin ELSE Served(a.piece)

\* It is stored or to come; what is stored whole is followed up.
Balanced(s, b, a, wr) ==
    /\ \A c \in Asked(wr, a.piece) : c < a.begin
    /\ Tally(s, b, a, wr) = Covered(a)
    /\ a.count = a.begin /\ a.begin < BlockCount[a.piece] => b.at = "try"

Moving(s, b, a, ch, wr) ==
    /\ OneReset(s)
    /\ a.piece # NoPiece => Ending(s, a.piece) \/ (~ch /\ Balanced(s, b, a, wr))

\* Before the end game a piece is in one write job at most, is marked until that job is
\* done, and is not chosen again; the active piece is marked until it is handed over.
OneJob ==
    /\ \A n, m \in 1 .. Len(jobs) : jobs[n].index = jobs[m].index => n = m
    /\ \A n \in 1 .. Len(jobs), w \in Workers : jobs[n].index # job[w]
    /\ \A w, v \in Workers : job[w] = job[v] /\ job[w] # NoPiece => w = v

Pending(i) == (\E n \in 1 .. Len(jobs) : jobs[n].index = i) \/ (\E w \in Workers : job[w] = i)

JobsMarked == \A i \in Pieces : Pending(i) => i \in requested

OwnPiece(p) ==
    /\ active[p].piece # NoPiece => active[p].piece \in requested \/ Has(strand[p], "Clear")
    /\ \A i \in Pieces : Pending(i) => /\ active[p].piece = i => Has(strand[p], "Clear")
                                       /\ busy[p].at = "chosen" => busy[p].msg.piece # i

Sole(p) == endGame \/ (OneJob /\ JobsMarked /\ OwnPiece(p))

Going(p) == conn[p] # "down" => Moving(strand[p], busy[p], active[p], choked[p], wire[p]) /\ Sole(p)

-----------------------------------------------------------------------------
(* What a strand holds after a handler is posted or run. *)

LEMMA PushHolds ==
    ASSUME NEW s \in Seq(Handler), NEW h \in Handler
    PROVE  LET u == Append(s, h) IN
           /\ \A k : Has(u, k) <=> Has(s, k) \/ h.kind = k
           /\ \A i : Ending(u, i) <=> Ending(s, i) \/ Ends(h, i)
           /\ \A b, i : Coming(u, b, i) <=> Coming(s, b, i) \/ Reply(h, i)
  <1> DEFINE u == Append(s, h)
  <1>1. /\ Len(u) = Len(s) + 1 /\ Len(s) \in Nat
        /\ \A n \in 1 .. Len(s) : u[n] = s[n]
        /\ u[Len(s) + 1] = h
    BY AppendProps
  <1>2. /\ \A n \in 1 .. Len(u) : n \in 1 .. Len(s) \/ n = Len(s) + 1
        /\ \A n \in 1 .. Len(s) : n \in 1 .. Len(u)
        /\ Len(s) + 1 \in 1 .. Len(u)
    BY <1>1
  <1> HIDE DEF u
  <1>3. \A k : Has(u, k) <=> Has(s, k) \/ h.kind = k
    BY <1>1, <1>2 DEF Has
  <1>4. \A i : Ending(u, i) <=> Ending(s, i) \/ Ends(h, i)
    BY <1>1, <1>2 DEF Ending
  <1>5. \A b, i : Coming(u, b, i) <=> Coming(s, b, i) \/ Reply(h, i)
    BY <1>1, <1>2 DEF Coming, Reply
  <1>6. QED
    BY <1>3, <1>4, <1>5, Zenon DEF u

LEMMA PopHolds ==
    ASSUME NEW s \in Seq(Handler), s # <<>>
    PROVE  LET t == Tail(s) IN
           /\ \A k : Has(s, k) <=> Has(t, k) \/ Head(s).kind = k
           /\ \A i : Ending(s, i) <=> Ending(t, i) \/ Ends(Head(s), i)
           /\ \A b, i : Coming(s, b, i) <=> Coming(t, b, i) \/ Reply(Head(s), i)
  <1> DEFINE t == Tail(s)
             h == Head(s)
  <1>1. /\ Len(t) = Len(s) - 1 /\ Len(s) \in Nat /\ Len(s) > 0 /\ h = s[1]
        /\ \A n \in 1 .. Len(t) : n + 1 \in 1 .. Len(s) /\ t[n] = s[n + 1]
    BY TailProps
  <1>2. \A n \in 1 .. Len(s) : n = 1 \/ (n - 1 \in 1 .. Len(t) /\ t[n - 1] = s[n])
    <2> TAKE n \in 1 .. Len(s)
    <2>1. n # 1 => n - 1 \in 1 .. Len(t) /\ (n - 1) + 1 = n
      BY <1>1
    <2>2. QED
      BY <1>1, <2>1
  <1>3. 1 \in 1 .. Len(s)
    BY <1>1
  <1> HIDE DEF t, h
  <1>4. \A k : Has(s, k) <=> Has(t, k) \/ h.kind = k
    BY <1>1, <1>2, <1>3 DEF Has
  <1>5. \A i : Ending(s, i) <=> Ending(t, i) \/ Ends(h, i)
    BY <1>1, <1>2, <1>3 DEF Ending
  <1>6. \A b, i : Coming(s, b, i) <=> Coming(t, b, i) \/ Reply(h, i)
    BY <1>1, <1>2, <1>3 DEF Coming, Reply
  <1>7. QED
    BY <1>4, <1>5, <1>6, Zenon DEF t, h

LEMMA ComingIdle ==
    ASSUME NEW s, NEW b, NEW c, NEW i, b.at # "checked", c.at # "checked"
    PROVE  Coming(s, b, i) <=> Coming(s, c, i)
  BY DEF Coming

\* Only the strand and the rest of the handler change, and no answer comes or goes.
LEMMA SameBalance ==
    ASSUME NEW s, NEW b, NEW u, NEW c, NEW a, NEW wr, Balanced(s, b, a, wr),
           Coming(u, c, a.piece) <=> Coming(s, b, a.piece),
           b.at = "try" => c.at = "try"
    PROVE  Balanced(u, c, a, wr)
  <1>1. Tally(u, c, a, wr) = Tally(s, b, a, wr)
    BY DEF Tally
  <1>2. QED
    BY <1>1 DEF Balanced

LEMMA PushMoving ==
    ASSUME NEW s \in Seq(Handler), NEW h \in Handler, NEW b, NEW a, NEW ch, NEW wr, Moving(s, b, a, ch, wr),
           h.kind \notin {"piece", "Block", "Choked", "Clear"}
    PROVE  Moving(Append(s, h), b, a, ch, wr)
  <1> DEFINE u == Append(s, h)
  <1>1. /\ \A k : Has(u, k) <=> Has(s, k) \/ h.kind = k
        /\ \A i : Ending(u, i) <=> Ending(s, i) \/ Ends(h, i)
        /\ \A c, i : Coming(u, c, i) <=> Coming(s, c, i) \/ Reply(h, i)
    BY PushHolds
  <1> HIDE DEF u
  <1>2. OneReset(u)
    BY <1>1 DEF OneReset, Moving
  <1>3. Coming(u, b, a.piece) <=> Coming(s, b, a.piece)
    BY <1>1 DEF Reply
  <1>4. Balanced(s, b, a, wr) => Balanced(u, b, a, wr)
    BY <1>3, SameBalance
  <1>5. QED
    BY <1>1, <1>2, <1>4 DEF Moving, u

LEMMA PostReadMoving ==
    ASSUME NEW p, NEW s \in Seq(Handler), NEW b, NEW a, NEW ch, NEW wr, Moving(s, b, a, ch, wr)
    PROVE  Moving(PostRead(p, s), b, a, ch, wr)
  <1>1. Signal("Read") \in Handler /\ Signal("Read").kind = "Read"
    BY HandlerTypes, PostFacts DEF SignalKinds
  <1>2. Moving(Append(s, Signal("Read")), b, a, ch, wr)
    BY <1>1, PushMoving
  <1>3. QED
    BY <1>2 DEF PostRead

\* A handler that neither drops the active piece nor takes an answer runs.
LEMMA PopMoving ==
    ASSUME NEW s \in Seq(Handler), s # <<>>, NEW b, NEW a, NEW ch, NEW new, NEW wr, Moving(s, Idle, a, ch, wr),
           ~Ends(Head(s), a.piece), ~Reply(Head(s), a.piece), b.at \in {"idle", "try"}, ~ch => ~new
    PROVE  Moving(Tail(s), b, a, new, wr)
  <1> DEFINE t == Tail(s)
  <1>1. /\ \A k : Has(s, k) <=> Has(t, k) \/ Head(s).kind = k
        /\ \A i : Ending(s, i) <=> Ending(t, i) \/ Ends(Head(s), i)
        /\ \A c, i : Coming(s, c, i) <=> Coming(t, c, i) \/ Reply(Head(s), i)
    BY PopHolds
  <1> HIDE DEF t
  <1>2. OneReset(t)
    BY <1>1 DEF OneReset, Moving
  <1>3. Idle.at = "idle"
    BY RestFacts
  <1>4. Coming(t, b, a.piece) <=> Coming(s, Idle, a.piece)
    <2>1. Coming(t, b, a.piece) <=> Coming(t, Idle, a.piece)
      BY <1>3, ComingIdle
    <2>2. QED
      BY <1>1, <2>1
  <1>5. Balanced(s, Idle, a, wr) => Balanced(t, b, a, wr)
    BY <1>3, <1>4, SameBalance
  <1>6. a.piece # NoPiece => Ending(t, a.piece) \/ (~new /\ Balanced(t, b, a, wr))
    BY <1>1, <1>5 DEF Moving
  <1>7. QED
    BY <1>2, <1>6 DEF Moving, t

\* The piece is about to be dropped, or there is none.
LEMMA EndMoving ==
    ASSUME NEW s, NEW b, NEW a, NEW ch, NEW wr, OneReset(s), a.piece = NoPiece \/ Ending(s, a.piece)
    PROVE  Moving(s, b, a, ch, wr)
  BY DEF Moving

LEMMA TailReset ==
    ASSUME NEW s \in Seq(Handler), s # <<>>, OneReset(s)
    PROVE  OneReset(Tail(s))
  <1>1. \A k : Has(s, k) <=> Has(Tail(s), k) \/ Head(s).kind = k
    BY PopHolds
  <1>2. QED
    BY <1>1 DEF OneReset

\* An answer arrives.
LEMMA AnswerMoving ==
    ASSUME NEW s \in Seq(Handler), NEW b, NEW a \in ActiveSet, NEW ch, NEW wr, Moving(s, b, a, ch, wr),
           Clean(s), b.at # "checked",
           NEW i \in Pieces, NEW c \in Nat, NEW g \in BOOLEAN, <<i, c>> \in wr, c < Served(i)
    PROVE  Moving(Append(s, PieceMsg(i, c, g)), b, a, ch, wr \ {<<i, c>>})
  <1> DEFINE m == PieceMsg(i, c, g)
             u == Append(s, m)
             new == wr \ {<<i, c>>}
  <1>1. m.kind = "piece" /\ m.piece = i /\ m \in Handler
    BY DEF PieceMsg, Handler, PieceKinds
  <1>2. /\ \A k : Has(u, k) <=> Has(s, k) \/ m.kind = k
        /\ \A j : Ending(u, j) <=> Ending(s, j) \/ Ends(m, j)
        /\ \A d, j : Coming(u, d, j) <=> Coming(s, d, j) \/ Reply(m, j)
    BY <1>1, PushHolds
  <1>3. /\ Cardinality(Asked(new, i)) = Cardinality(Asked(wr, i)) - 1
        /\ \A j \in Pieces : j # i => Asked(new, j) = Asked(wr, j)
        /\ \A j \in Pieces : Asked(new, j) \subseteq Asked(wr, j)
    BY AskedAnswered
  <1>4. ~Coming(s, b, i)
    BY DEF Clean, Plain, Coming, Link, MessageKinds
  <1> HIDE DEF m, u, new
  <1>5. OneReset(u)
    BY <1>1, <1>2 DEF OneReset, Moving
  <1>6. ASSUME a.piece # NoPiece, Balanced(s, b, a, wr) PROVE Balanced(u, b, a, new)
    <2>1. a.piece \in Pieces /\ a.count \in Nat
      BY <1>6 DEF ActiveSet, Content
    <2>2. \A d \in Asked(new, a.piece) : d < a.begin
      BY <1>3, <1>6, <2>1 DEF Balanced
    <2>3. Tally(u, b, a, new) = Tally(s, b, a, wr)
      <3>1. CASE a.piece = i
        <4>1. Coming(u, b, a.piece) /\ ~Coming(s, b, a.piece)
          BY <1>1, <1>2, <1>4, <3>1 DEF Reply
        <4>2. Cardinality(Asked(wr, i)) \in Nat /\ Cardinality(Asked(new, i)) = Cardinality(Asked(wr, i)) - 1
          BY <1>3, AskedFinite
        <4>3. (a.count + Cardinality(Asked(new, i))) + 1 = (a.count + Cardinality(Asked(wr, i))) + 0
          BY <2>1, <4>2
        <4>4. QED
          BY <3>1, <4>1, <4>3 DEF Tally, Expected
      <3>2. CASE a.piece # i
        <4>1. Coming(u, b, a.piece) <=> Coming(s, b, a.piece)
          BY <1>1, <1>2, <3>2 DEF Reply
        <4>2. Asked(new, a.piece) = Asked(wr, a.piece)
          BY <1>3, <2>1, <3>2
        <4>3. QED
          BY <4>1, <4>2 DEF Tally, Expected
      <3>3. QED
        BY <3>1, <3>2
    <2>4. QED
      BY <1>6, <2>2, <2>3 DEF Balanced
  <1>7. Moving(u, b, a, ch, new)
    BY <1>2, <1>5, <1>6 DEF Moving
  <1>8. QED
    BY <1>7 DEF u, m, new

\* An answer is checked, and its block posted.
LEMMA AcceptMoving ==
    ASSUME NEW s \in Seq(Handler), s # <<>>, NEW a, NEW ch, NEW wr, Moving(s, Idle, a, ch, wr), Head(s).kind = "piece"
    PROVE  Moving(Tail(s), Rest("checked", Head(s), TRUE), a, ch, wr)
  <1> DEFINE t == Tail(s)
             m == Head(s)
             b == Rest("checked", m, TRUE)
  <1>1. /\ \A k : Has(s, k) <=> Has(t, k) \/ m.kind = k
        /\ \A i : Ending(s, i) <=> Ending(t, i) \/ Ends(m, i)
        /\ \A c, i : Coming(s, c, i) <=> Coming(t, c, i) \/ Reply(m, i)
    BY PopHolds
  <1>2. b.at = "checked" /\ b.msg = m /\ Idle.at = "idle"
    BY RestFacts DEF Rest
  <1> HIDE DEF t, m, b
  <1>3. Coming(t, b, a.piece) <=> Coming(s, Idle, a.piece)
    <2>1. Coming(t, b, a.piece) <=> Coming(t, Idle, a.piece) \/ m.piece = a.piece
      BY <1>2 DEF Coming
    <2>2. Reply(m, a.piece) <=> m.piece = a.piece
      BY DEF Reply, m
    <2>3. QED
      BY <1>1, <2>1, <2>2
  <1>4. Balanced(s, Idle, a, wr) => Balanced(t, b, a, wr)
    BY <1>2, <1>3, SameBalance
  <1>5. OneReset(t) /\ \A i : Ending(s, i) => Ending(t, i)
    BY <1>1 DEF OneReset, Moving, Ends, m
  <1>6. Moving(t, b, a, ch, wr)
    BY <1>4, <1>5 DEF Moving
  <1>7. QED
    BY <1>6 DEF t, b, m

LEMMA PostBlockMoving ==
    ASSUME NEW s \in Seq(Handler), NEW b \in BusySet, b.at = "checked", NEW a, NEW ch, NEW wr, Moving(s, b, a, ch, wr)
    PROVE  LET u == Append(s, [b.msg EXCEPT !.kind = "Block"]) IN u \in Seq(Handler) /\ Moving(u, Idle, a, ch, wr)
  <1> DEFINE h == [b.msg EXCEPT !.kind = "Block"]
             u == Append(s, h)
  <1>1. b.msg \in Handler /\ b.msg.kind = "piece"
    BY BusyFields
  <1>2. h \in Handler /\ h.kind = "Block" /\ h.piece = b.msg.piece
    BY <1>1 DEF Handler, PieceKinds, SignalKinds
  <1> HIDE DEF h
  <1>3. /\ \A k : Has(u, k) <=> Has(s, k) \/ h.kind = k
        /\ \A i : Ending(u, i) <=> Ending(s, i) \/ Ends(h, i)
        /\ \A c, i : Coming(u, c, i) <=> Coming(s, c, i) \/ Reply(h, i)
    BY <1>2, PushHolds
  <1>4. u \in Seq(Handler)
    BY <1>2
  <1> HIDE DEF u
  <1>5. Coming(u, Idle, a.piece) <=> Coming(s, b, a.piece)
    <2>1. Coming(s, b, a.piece) <=> Coming(s, Idle, a.piece) \/ b.msg.piece = a.piece
      BY RestFacts DEF Coming
    <2>2. Reply(h, a.piece) <=> b.msg.piece = a.piece
      BY <1>2 DEF Reply
    <2>3. QED
      BY <1>3, <2>1, <2>2
  <1>6. Balanced(s, b, a, wr) => Balanced(u, Idle, a, wr)
    BY <1>5, SameBalance
  <1>7. OneReset(u)
    BY <1>2, <1>3 DEF OneReset, Moving
  <1>8. Moving(u, Idle, a, ch, wr)
    BY <1>3, <1>6, <1>7 DEF Moving
  <1>9. QED
    BY <1>4, <1>8 DEF u, h

\* A multiple of the window.
LEMMA Multiple ==
    ASSUME NEW k \in Nat, NEW m \in Nat, NEW x \in Nat, k * Window - m * Window = x
    PROVE  x % Window = 0
  <1>1. Window \in Nat /\ Window > 0
    BY WindowAssumption
  <1>2. x = (k - m) * Window /\ k - m \in Int
    BY <1>1
  <1> DEFINE d == k - m
  <1> HIDE DEF d
  <1>3. x = d * Window /\ d \in Int
    BY <1>2 DEF d
  <1>4. QED
    BY <1>1, <1>3

\* Before the end of the piece some windows were asked for.
LEMMA WindowsAsked ==
    ASSUME NEW a \in ActiveSet, a.piece \in Pieces, WholeWindows(a), a.begin < BlockCount[a.piece]
    PROVE  WindowFull(a.begin)
  <1>1. /\ BlockCount[a.piece] \in Nat /\ Window \in Nat /\ Window > 0 /\ a.begin \in Nat /\ a.piece # NoPiece
        /\ 0 * Window = 0
    BY BlockCountAssumption, WindowAssumption, PiecesAssumption DEF ActiveSet
  <1>2. PICK k \in Nat : a.begin = k * Window
    <2>1. Rounds(a)
      BY <1>1 DEF WholeWindows
    <2>2. CASE a.begin = 0
      BY <1>1, <2>2
    <2>3. CASE a.begin # 0
      BY <1>1, <2>1, <2>3 DEF Rounds
    <2>4. QED
      BY <2>2, <2>3
  <1>3. k * Window - 0 * Window = a.begin
    BY <1>1, <1>2
  <1>4. QED
    BY <1>1, <1>3, Multiple DEF WindowFull

\* A block is stored, and is not the last of its piece: a full window calls TryToRequestPiece.
LEMMA StoreMoving ==
    ASSUME NEW s \in Seq(Handler), s # <<>>, NEW a \in ActiveSet, NEW rd, NEW ch, NEW wr, NEW H, NEW x \in Content,
           Fit(s, Idle, a, rd, ch, wr, H), Head(s).kind = "Block", Ordered(s), Moving(s, Idle, a, ch, wr), WholeWindows(a)
    PROVE  LET new == [a EXCEPT !.count = @ + 1, !.blocks = [@ EXCEPT ![Head(s).block + 1] = x]] IN
           Moving(Tail(s), IF WindowFull(new.count) THEN CallTry(FALSE) ELSE Idle, new, ch, wr)
  <1> DEFINE t == Tail(s)
             new == [a EXCEPT !.count = @ + 1, !.blocks = [@ EXCEPT ![Head(s).block + 1] = x]]
             b == IF WindowFull(new.count) THEN CallTry(FALSE) ELSE Idle
  <1>1. /\ a.piece = Head(s).piece /\ a.piece \in Pieces
        /\ \A n \in 1 .. Len(t) : t[n].kind \notin MessageKinds \cup {"Block", "Clear"}
    BY StoreFit
  <1>2. new.piece = a.piece /\ new.begin = a.begin /\ new.count = a.count + 1 /\ a.count \in Nat /\ a.begin \in Nat
    BY DEF ActiveSet
  <1>3. /\ \A k : Has(s, k) <=> Has(t, k) \/ Head(s).kind = k
        /\ \A i : Ending(s, i) <=> Ending(t, i) \/ Ends(Head(s), i)
        /\ \A c, i : Coming(s, c, i) <=> Coming(t, c, i) \/ Reply(Head(s), i)
    BY PopHolds
  <1>4. /\ WindowFull(new.count) => b.at = "try"
        /\ b.at # "checked" /\ Idle.at = "idle"
    BY RestFacts
  <1>5. ~Coming(t, b, a.piece)
    BY <1>1, <1>4 DEF Coming, MessageKinds
  <1> HIDE DEF t, new, b
  <1>6. Coming(s, Idle, a.piece)
    BY <1>1, <1>3 DEF Reply
  <1>7. OneReset(t) /\ (Ending(s, a.piece) => Ending(t, a.piece))
    BY <1>3 DEF OneReset, Moving, Ends
  <1>8. ASSUME Balanced(s, Idle, a, wr) PROVE Balanced(t, b, new, wr)
    <2> DEFINE c == Cardinality(Asked(wr, a.piece))
    <2>1. c \in Nat
      BY <1>1, AskedFinite
    <2>2. (a.count + c) + 1 = Covered(a)
      BY <1>6, <1>8 DEF Balanced, Tally, Expected
    <2>3. ((a.count + 1) + c) + 0 = Covered(a)
      <3> HIDE DEF c
      <3>1. QED
        BY <1>2, <2>1, <2>2
    <2>4. Tally(t, b, new, wr) = Covered(new)
      <3>1. Covered(new) = Covered(a)
        BY <1>2 DEF Covered
      <3>2. QED
        BY <1>2, <1>5, <2>3, <3>1 DEF Tally, Expected
    <2>5. ASSUME new.count = a.begin, a.begin < BlockCount[a.piece] PROVE b.at = "try"
      <3>1. WindowFull(a.begin)
        BY <1>1, <2>5, WindowsAsked
      <3>2. QED
        BY <1>4, <2>5, <3>1
    <2>6. \A d \in Asked(wr, new.piece) : d < new.begin
      BY <1>2, <1>8 DEF Balanced
    <2>7. QED
      BY <1>2, <2>4, <2>5, <2>6 DEF Balanced
  <1>9. Moving(t, b, new, ch, wr)
    BY <1>1, <1>2, <1>7, <1>8, PiecesAssumption DEF Moving
  <1>10. QED
    BY <1>9 DEF t, b, new

\* The last block of a piece: no reset of a choke is queued.
LEMMA LastMoving ==
    ASSUME NEW s \in Seq(Handler), s # <<>>, NEW a, NEW b, NEW new, NEW rd, NEW ch, NEW wr, NEW H,
           Fit(s, Idle, a, rd, ch, wr, H), Head(s).kind = "Block"
    PROVE  Moving(Append(Tail(s), Signal("Clear")), b, new, ch, wr)
  <1> DEFINE t == Tail(s)
             h == Signal("Clear")
             u == Append(t, h)
  <1>1. h \in Handler /\ h.kind = "Clear" /\ t \in Seq(Handler)
    BY HandlerTypes, PostFacts, TailProps DEF SignalKinds
  <1>2. 1 \in 1 .. Len(s) /\ Head(s) = s[1] /\ \A n \in 1 .. Len(s) : ~(1 > n)
    BY TailProps
  <1>3. ~Has(s, "Choked")
    BY <1>2 DEF Fit, ChokedFirst, Has
  <1>4. \A k : Has(s, k) <=> Has(t, k) \/ Head(s).kind = k
    BY PopHolds
  <1> HIDE DEF t, h
  <1>5. /\ \A k : Has(u, k) <=> Has(t, k) \/ h.kind = k
        /\ \A i : Ending(u, i) <=> Ending(t, i) \/ Ends(h, i)
    BY <1>1, PushHolds
  <1> HIDE DEF u
  <1>6. OneReset(u) /\ Ending(u, new.piece)
    BY <1>1, <1>3, <1>4, <1>5 DEF OneReset, Ends
  <1>7. Moving(u, b, new, ch, wr)
    BY <1>6, EndMoving
  <1>8. QED
    BY <1>7 DEF u, t, h

\* The requests of a window are sent: they are for blocks that were not asked for.
LEMMA SentBalance ==
    ASSUME NEW s, NEW b, NEW a \in ActiveSet, a.piece \in Pieces, NEW wr,
           \A c \in Asked(wr, a.piece) : c < a.begin, Tally(s, b, a, wr) = Covered(a), b.at # "checked"
    PROVE  Balanced(s, Idle, SendRequests(a), wr \cup RequestSet(a))
  <1> DEFINE i == a.piece
             n == BlockCount[i]
             k == RequestsSent(n)
             x == SendRequests(a)
             new == wr \cup RequestSet(a)
             lo == Covered(a)
             hi == Covered(x)
             more == lo .. (hi - 1)
             c == Cardinality(Asked(wr, i))
  <1>1. /\ i # NoPiece /\ n \in Nat /\ a.begin \in Nat /\ a.count \in Nat
        /\ Served(i) \in Nat /\ Served(i) <= n /\ n <= Served(i) + 1
    BY PiecesAssumption, ServedFacts DEF ActiveSet
  <1>2. /\ k \in Nat \ {0} /\ x.piece = i /\ x.count = a.count
        /\ x.begin = IF n = 0 THEN a.begin ELSE a.begin + k
        /\ RequestSet(a) = {<<i, d>> : d \in a.begin .. ((a.begin + k) - 1)}
    BY <1>1, SentFacts
  <1> HIDE DEF x
  <1>3. /\ lo \in Nat /\ hi \in Nat /\ lo <= hi /\ hi <= x.begin /\ x.begin \in Nat
        /\ x.begin < n => hi = x.begin /\ lo < hi
    BY <1>1, <1>2 DEF Covered
  <1>4. \A d \in Int : d \in more <=> d \in a.begin .. ((a.begin + k) - 1) /\ d \in 0 .. (Served(i) - 1)
    BY <1>1, <1>2 DEF Covered
  <1>5. Asked(new, i) = Asked(wr, i) \cup more
    <2>1. \A d : <<i, d>> \in new <=> <<i, d>> \in wr \/ d \in a.begin .. ((a.begin + k) - 1)
      BY <1>2
    <2>2. \A d \in more : d \in Int
      BY <1>3
    <2> HIDE DEF new, more
    <2>3. QED
      BY <1>4, <2>1, <2>2 DEF Asked
  <1>6. IsFiniteSet(more) /\ Cardinality(more) = hi - lo
    BY <1>3, IntervalSize
  <1>7. Asked(wr, i) \cap more = {}
    <2>1. \A d \in more : d \in Int /\ ~(d < a.begin)
      BY <1>1, <1>3, <1>4
    <2>2. QED
      BY <2>1
  <1> HIDE DEF more, new, lo, hi
  <1>8. Cardinality(Asked(new, i)) = c + (hi - lo) /\ c \in Nat
    <2>1. IsFiniteSet(Asked(wr, i)) /\ c \in Nat
      BY AskedFinite
    <2>2. Cardinality(Asked(wr, i) \cup more) = c + Cardinality(more) - Cardinality(Asked(wr, i) \cap more)
      BY <1>6, <2>1, FS_Union
    <2>3. Cardinality(Asked(wr, i) \cap more) = 0
      BY <1>7, FS_EmptySet
    <2> HIDE DEF c
    <2>4. Cardinality(Asked(wr, i) \cup more) = c + (hi - lo)
      BY <1>3, <1>6, <2>1, <2>2, <2>3
    <2>5. QED
      BY <1>5, <2>1, <2>4
  <1>9. Coming(s, Idle, i) <=> Coming(s, b, i)
    BY RestFacts, ComingIdle
  <1> DEFINE z == IF Coming(s, b, i) THEN 1 ELSE 0
  <1>10. z \in Nat
    OBVIOUS
  <1>11. (a.count + c) + z = lo
    BY DEF Tally, Expected, lo
  <1>12. Tally(s, Idle, x, new) = (a.count + (c + (hi - lo))) + z
    BY <1>2, <1>8, <1>9 DEF Tally, Expected
  <1> HIDE DEF z, c
  <1>13. (a.count + (c + (hi - lo))) + z = hi /\ (x.begin < n => a.count # x.begin)
    BY <1>1, <1>3, <1>8, <1>10, <1>11
  <1>14. \A d \in Asked(new, i) : d < x.begin
    <2>1. \A d \in Asked(wr, i) : d \in Int /\ d < a.begin
      BY DEF Asked
    <2>2. \A d \in more : d < x.begin
      BY <1>3 DEF more
    <2>3. a.begin <= x.begin
      BY <1>1, <1>2
    <2>4. \A d \in Asked(wr, i) : d < x.begin
      BY <1>1, <1>3, <2>1, <2>3
    <2>5. QED
      BY <1>5, <2>2, <2>4
  <1>15. Balanced(s, Idle, x, new)
    BY <1>2, <1>12, <1>13, <1>14 DEF Balanced, hi
  <1>16. QED
    BY <1>15 DEF x, new

-----------------------------------------------------------------------------
(* Steps of the one client. *)

LEMMA ClearStays ==
    ASSUME NEW s \in Seq(Handler), Has(s, "Clear")
    PROVE  /\ \A h \in Handler : Has(Append(s, h), "Clear")
           /\ \A q : Has(PostRead(q, s), "Clear")
           /\ s # <<>> /\ Head(s).kind # "Clear" => Tail(s) \in Seq(Handler) /\ Has(Tail(s), "Clear")
  <1>1. \A h \in Handler : Has(Append(s, h), "Clear")
    BY PushHolds
  <1>2. Signal("Read") \in Handler
    BY HandlerTypes DEF SignalKinds
  <1>3. \A q : Has(PostRead(q, s), "Clear")
    BY <1>1, <1>2 DEF PostRead
  <1>4. ASSUME s # <<>>, Head(s).kind # "Clear" PROVE Tail(s) \in Seq(Handler) /\ Has(Tail(s), "Clear")
    BY <1>4, PopHolds, TailProps
  <1>5. QED
    BY <1>1, <1>3, <1>4

\* A step that takes no mark away and makes no job.
LEMMA SoleKept ==
    ASSUME NEW p \in Peers, Sole(p), UNCHANGED <<endGame, jobs, job>>, requested \subseteq requested',
           active'[p].piece # NoPiece => active'[p].piece = active[p].piece,
           Has(strand[p], "Clear") /\ active'[p].piece # NoPiece => Has(strand'[p], "Clear"),
           busy'[p].at = "chosen" => \/ busy[p].at = "chosen" /\ busy'[p].msg = busy[p].msg
                                     \/ endGame \/ busy'[p].msg.piece \notin requested
    PROVE  Sole(p)'
  <1>1. CASE endGame
    BY <1>1 DEF Sole
  <1>2. CASE ~endGame
    <2>1. OneJob /\ JobsMarked /\ OwnPiece(p)
      BY <1>2 DEF Sole
    <2>2. OneJob' /\ \A i : Pending(i)' <=> Pending(i)
      BY <2>1 DEF OneJob, Pending
    <2>3. JobsMarked'
      BY <2>1, <2>2 DEF JobsMarked
    <2>4. active'[p].piece # NoPiece => active'[p].piece \in requested' \/ Has(strand'[p], "Clear")
      BY <2>1 DEF OwnPiece
    <2>5. ASSUME NEW i \in Pieces, Pending(i)
          PROVE  /\ active'[p].piece = i => Has(strand'[p], "Clear")
                 /\ busy'[p].at = "chosen" => busy'[p].msg.piece # i
      <3>1. /\ active[p].piece = i => Has(strand[p], "Clear")
            /\ busy[p].at = "chosen" => busy[p].msg.piece # i
            /\ i \in requested /\ i # NoPiece
        BY <2>1, <2>5, PiecesAssumption DEF OwnPiece, JobsMarked
      <3>2. QED
        BY <1>2, <3>1
    <2>6. OwnPiece(p)'
      BY <2>2, <2>4, <2>5 DEF OwnPiece, Has
    <2>7. QED
      BY <2>2, <2>3, <2>6 DEF Sole
  <1>3. QED
    BY <1>1, <1>2

\* What a handler that starts to run finds.
LEMMA RunsGoing ==
    ASSUME TypeOK, ReadChain, Everyone, NEW p \in Peers, Going(p), conn[p] # "down", NEW k, Runs(p, k)
    PROVE  /\ strand[p] \in Seq(Handler) /\ strand[p] # <<>> /\ Head(strand[p]).kind = k
           /\ Tail(strand[p]) \in Seq(Handler) /\ busy[p] = Idle /\ active[p] \in ActiveSet
           /\ Moving(strand[p], Idle, active[p], choked[p], wire[p]) /\ Sole(p)
           /\ k # "Clear" /\ Has(strand[p], "Clear") => Has(Tail(strand[p]), "Clear")
  <1>1. /\ strand[p] \in Seq(Handler) /\ strand[p] # <<>> /\ Head(strand[p]).kind = k
        /\ Tail(strand[p]) \in Seq(Handler) /\ busy[p] = Idle /\ active[p] \in ActiveSet
    BY RunsFit
  <1>2. Moving(strand[p], Idle, active[p], choked[p], wire[p]) /\ Sole(p)
    BY <1>1 DEF Going
  <1>3. k # "Clear" /\ Has(strand[p], "Clear") => Has(Tail(strand[p]), "Clear")
    BY <1>1, ClearStays
  <1>4. QED
    BY <1>1, <1>2, <1>3

LEMMA GoingIs ==
    ASSUME NEW p \in Peers, NEW s, NEW b, NEW a, NEW ch, NEW wr, Moving(s, b, a, ch, wr), Sole(p)',
           strand'[p] = s, busy'[p] = b, active'[p] = a, choked'[p] = ch, wire'[p] = wr
    PROVE  Going(p)'
  BY DEF Going

LEMMA DeliverGoing ==
    ASSUME Calm, TypeOK, ReadChain, NEW p \in Peers, Going(p), conn[p] # "down", NEW m \in Handler, Deliver(p, m),
           \/ m.kind \in MessageKinds \ {"piece"}
           \/ \E r \in Answerable(p), g \in BOOLEAN : m = PieceMsg(r[1], r[2], g)
    PROVE  Going(p)'
  <1> DEFINE s == strand[p]
  <1>1. /\ s \in Seq(Handler) /\ active[p] \in ActiveSet /\ wire[p] \subseteq Pieces \X Nat
        /\ busy' = busy /\ active' = active /\ choked' = choked
        /\ UNCHANGED <<requested, endGame, jobs, job>>
    BY ClientTypes DEF Deliver, masterVars, workerVars, statusVars
  <1>2. /\ strand'[p] = Append(s, m)
        /\ wire'[p] = IF m.kind = "piece" THEN wire[p] \ {<<m.piece, m.block>>} ELSE wire[p]
    BY DEF TypeOK, StrandType, PieceType, Deliver
  <1>3. Moving(s, busy[p], active[p], choked[p], wire[p]) /\ Sole(p)
    BY DEF Going
  <1>4. Clean(s) /\ busy[p].at # "checked"
    <2>1. reading[p] = TRUE /\ Chained(p)
      BY DEF Deliver, ReadChain, TypeOK, StrandType
    <2>2. QED
      BY <2>1 DEF Chained
  <1>5. Sole(p)'
    <2>1. Has(s, "Clear") => Has(strand'[p], "Clear")
      BY <1>1, <1>2, ClearStays
    <2>2. QED
      BY <1>1, <1>3, <2>1, SoleKept
  <1>6. CASE m.kind \in MessageKinds \ {"piece"}
    <2>1. m.kind \notin {"piece", "Block", "Choked", "Clear"}
      BY <1>6 DEF MessageKinds
    <2>2. Moving(Append(s, m), busy[p], active[p], choked[p], wire[p])
      BY <1>1, <1>3, <2>1, PushMoving
    <2>3. QED
      BY <1>1, <1>2, <1>5, <2>1, <2>2, GoingIs
  <1>7. CASE \E r \in Answerable(p), g \in BOOLEAN : m = PieceMsg(r[1], r[2], g)
    <2>1. PICK i \in Pieces, c \in Nat, g \in BOOLEAN : <<i, c>> \in wire[p] /\ c < Served(i) /\ m = PieceMsg(i, c, g)
      BY <1>1, <1>7 DEF Answerable, Calm
    <2>2. m.kind = "piece" /\ m.piece = i /\ m.block = c
      BY <2>1 DEF PieceMsg
    <2>3. Moving(Append(s, PieceMsg(i, c, g)), busy[p], active[p], choked[p], wire[p] \ {<<i, c>>})
      BY <1>1, <1>3, <1>4, <2>1, AnswerMoving
    <2>4. Moving(Append(s, m), busy[p], active[p], choked[p], wire[p] \ {<<i, c>>})
      BY <2>1, <2>3
    <2>5. QED
      BY <1>1, <1>2, <1>5, <2>2, <2>4, GoingIs
  <1>8. QED
    BY <1>6, <1>7

LEMMA EnvironmentGoing ==
    ASSUME Calm, TypeOK, ReadChain, NEW p \in Peers, Going(p), conn[p] # "down", Environment(p)
    PROVE  Going(p)'
  <1>1. CASE Access(p)
    <2> DEFINE s == strand[p]
               h == Signal("Read")
    <2>1. h \in Handler /\ h.kind = "Read" /\ s \in Seq(Handler)
      BY HandlerTypes, PostFacts, ClientTypes DEF SignalKinds
    <2>2. /\ strand'[p] = Append(s, h)
          /\ UNCHANGED <<busy, active, choked, wire, requested, endGame, jobs, job>>
      BY <1>1 DEF TypeOK, StrandType, Access, masterVars, workerVars, pieceVars
    <2> HIDE DEF h
    <2>3. Moving(s, busy[p], active[p], choked[p], wire[p]) /\ Sole(p)
      BY DEF Going
    <2>4. Moving(Append(s, h), busy[p], active[p], choked[p], wire[p])
      BY <2>1, <2>3, PushMoving
    <2>5. Has(s, "Clear") => Has(strand'[p], "Clear")
      BY <2>1, <2>2, ClearStays
    <2>6. Sole(p)'
      BY <2>2, <2>3, <2>5, SoleKept
    <2>7. QED
      BY <2>2, <2>4, <2>6, GoingIs
  <1>2. CASE RemoteServes(p) \/ RemoteDisturbs(p)
    <2>1. /\ Signal("bitfield") \in Handler /\ Signal("unchoke") \in Handler /\ Signal("interested") \in Handler
          /\ Signal("choke") \in Handler /\ \A i \in Pieces : Post("have", i) \in Handler
      BY HandlerTypes DEF SignalKinds, PieceKinds
    <2>2. \A k \in MessageKinds \ {"piece"} : /\ Signal(k).kind \in MessageKinds \ {"piece"}
                                              /\ \A i : Post(k, i).kind \in MessageKinds \ {"piece"}
      BY PostFacts
    <2>3. \A r \in Answerable(p), g \in BOOLEAN : PieceMsg(r[1], r[2], g) \in Handler
      BY ClientTypes DEF Answerable, PieceMsg, Handler, PieceKinds
    <2>4. PICK m \in Handler : /\ Deliver(p, m)
                               /\ \/ m.kind \in MessageKinds \ {"piece"}
                                  \/ \E r \in Answerable(p), g \in BOOLEAN : m = PieceMsg(r[1], r[2], g)
      <3>1. CASE RemoteServes(p)
        BY <2>1, <2>2, <2>3, <3>1 DEF RemoteServes, MessageKinds
      <3>2. CASE RemoteDisturbs(p)
        <4>1. \A i \in RemoteHas[p] : i \in Pieces
          BY RemoteHasAssumption
        <4>2. QED
          BY <2>1, <2>2, <2>3, <3>2, <4>1 DEF RemoteDisturbs, MessageKinds
      <3>3. QED
        BY <1>2, <3>1, <3>2
    <2>5. QED
      BY <2>4, DeliverGoing
  <1>3. CASE PieceTimerFires(p) \/ KeepAliveTimerFires(p)
    BY <1>3 DEF PieceTimerFires, KeepAliveTimerFires, Calm
  <1>4. CASE Disconnect(p)
    <2>1. conn'[p] = "down"
      BY <1>4 DEF Disconnect, TypeOK, StatusType
    <2>2. QED
      BY <2>1 DEF Going
  <1>5. QED
    BY <1>1, <1>2, <1>3, <1>4 DEF Environment

\* A choke: the reset it posts is alone, since a reset of a complete piece comes before
\* every message.
LEMMA ChokeMoving ==
    ASSUME NEW s \in Seq(Handler), s # <<>>, NEW a, NEW rd, NEW ch, NEW wr, NEW H, NEW b, NEW new, NEW cc, NEW q,
           Fit(s, Idle, a, rd, ch, wr, H), Head(s).kind = "choke"
    PROVE  Moving(PostRead(q, Append(Tail(s), Signal("Choked"))), b, a, cc, new)
  <1> DEFINE t == Tail(s)
             h == Signal("Choked")
             u == Append(t, h)
  <1>1. h \in Handler /\ h.kind = "Choked" /\ t \in Seq(Handler)
    BY HandlerTypes, PostFacts, TailProps DEF SignalKinds
  <1>2. 1 \in 1 .. Len(s) /\ Head(s) = s[1] /\ \A n \in 1 .. Len(s) : ~(1 > n)
    BY TailProps
  <1>3. ~Has(s, "Clear")
    BY <1>2 DEF Fit, ClearSettled, Has, MessageKinds
  <1>4. \A k : Has(s, k) <=> Has(t, k) \/ Head(s).kind = k
    BY PopHolds
  <1> HIDE DEF t, h
  <1>5. /\ \A k : Has(u, k) <=> Has(t, k) \/ h.kind = k
        /\ \A i : Ending(u, i) <=> Ending(t, i) \/ Ends(h, i)
    BY <1>1, PushHolds
  <1>6. u \in Seq(Handler)
    BY <1>1
  <1> HIDE DEF u
  <1>7. OneReset(u) /\ Ending(u, a.piece)
    BY <1>1, <1>3, <1>4, <1>5 DEF OneReset, Ends
  <1>8. Moving(u, b, a, cc, new)
    BY <1>7, EndMoving
  <1>9. Moving(PostRead(q, u), b, a, cc, new)
    BY <1>6, <1>8, PostReadMoving
  <1>10. QED
    BY <1>9 DEF u, t, h

LEMMA HandleResponseGoing ==
    ASSUME Calm, TypeOK, ReadChain, Everyone, NEW p \in Peers, Going(p), conn[p] # "down", HandleResponse(p)
    PROVE  Going(p)'
  <1> DEFINE s == strand[p]
             t == Tail(s)
             a == active[p]
  <1>t. /\ strand \in [Peers -> Seq(Handler)] /\ busy \in [Peers -> BusySet] /\ active \in [Peers -> ActiveSet]
        /\ choked \in [Peers -> BOOLEAN] /\ DOMAIN wire = Peers /\ s \in Seq(Handler)
    BY DEF TypeOK, StrandType, PieceType, StatusType
  <1>u. UNCHANGED <<active, requested, endGame, jobs, job>>
    BY DEF HandleResponse, HandleChoke, HandleUnchoke, HandleInterested, HandleHave, HandleBitfield, HandlePiece, PostBlock,
           masterVars, workerVars, pieceVars
  <1>c. Idle.at = "idle" /\ CallTry(TRUE).at = "try"
    BY RestFacts
  <1>1. CASE HandleChoke(p)
    <2>1. Runs(p, "choke")
      BY <1>1 DEF HandleChoke
    <2> DEFINE u == Append(t, Signal("Choked"))
    <2>2. /\ s # <<>> /\ Head(s).kind = "choke" /\ t \in Seq(Handler) /\ busy[p] = Idle /\ Sole(p)
          /\ Has(s, "Clear") => Has(t, "Clear")
      BY <2>1, RunsGoing
    <2>3. Fit(s, Idle, a, reading[p], choked[p], wire[p], have)
      BY <2>1, RunsFit
    <2>4. /\ strand'[p] = PostRead(p, u) /\ busy' = busy /\ choked'[p] = TRUE
      BY <1>1, <1>t DEF HandleChoke
    <2>5. Moving(PostRead(p, u), busy[p], a, TRUE, wire'[p])
      BY <1>t, <2>2, <2>3, ChokeMoving
    <2>6. Has(t, "Clear") => Has(PostRead(p, u), "Clear")
      <3>1. Signal("Choked") \in Handler
        BY HandlerTypes DEF SignalKinds
      <3>2. u \in Seq(Handler)
        BY <2>2, <3>1
      <3>3. Has(t, "Clear") => Has(u, "Clear")
        BY <2>2, <3>1, ClearStays
      <3> HIDE DEF u
      <3>4. QED
        BY <3>2, <3>3, ClearStays
    <2> HIDE DEF u
    <2>7. Sole(p)'
      BY <1>u, <2>2, <2>4, <2>6, SoleKept
    <2>8. QED
      BY <1>u, <2>4, <2>5, <2>7, GoingIs
  <1>2. ASSUME NEW k \in {"unchoke", "interested", "have", "bitfield"}, Runs(p, k), wire' = wire,
               choked'[p] = choked[p] \/ choked'[p] = FALSE,
               \/ strand' = [strand EXCEPT ![p] = PostRead(p, Tail(@))] /\ busy' = busy
               \/ strand' = [strand EXCEPT ![p] = Tail(@)] /\ busy' = [busy EXCEPT ![p] = CallTry(TRUE)]
        PROVE  Going(p)'
    <2>1. /\ s # <<>> /\ Head(s).kind = k /\ t \in Seq(Handler) /\ busy[p] = Idle /\ Sole(p)
          /\ Moving(s, Idle, a, choked[p], wire[p])
          /\ Has(s, "Clear") => Has(t, "Clear")
      BY <1>2, RunsGoing
    <2>2. ~Ends(Head(s), a.piece) /\ ~Reply(Head(s), a.piece) /\ (~choked[p] => ~choked'[p])
      BY <1>2, <2>1 DEF Ends, Reply
    <2>3. Moving(t, Idle, a, choked'[p], wire[p]) /\ Moving(t, CallTry(TRUE), a, choked'[p], wire[p])
      BY <1>c, <1>t, <2>1, <2>2, PopMoving
    <2>4. CASE strand' = [strand EXCEPT ![p] = PostRead(p, Tail(@))] /\ busy' = busy
      <3>1. strand'[p] = PostRead(p, t) /\ busy'[p] = Idle
        BY <1>t, <2>1, <2>4
      <3>2. Moving(PostRead(p, t), Idle, a, choked'[p], wire[p])
        BY <2>1, <2>3, PostReadMoving
      <3>3. Has(s, "Clear") => Has(strand'[p], "Clear")
        BY <2>1, <3>1, ClearStays
      <3>4. Sole(p)'
        BY <1>c, <1>u, <2>1, <3>1, <3>3, SoleKept
      <3>5. QED
        BY <1>2, <1>u, <3>1, <3>2, <3>4, GoingIs
    <2>5. CASE strand' = [strand EXCEPT ![p] = Tail(@)] /\ busy' = [busy EXCEPT ![p] = CallTry(TRUE)]
      <3>1. strand'[p] = t /\ busy'[p] = CallTry(TRUE)
        BY <1>t, <2>5
      <3>2. Sole(p)'
        BY <1>c, <1>u, <2>1, <3>1, SoleKept
      <3>3. QED
        BY <1>2, <1>u, <2>3, <3>1, <3>2, GoingIs
    <2>6. QED
      BY <1>2, <2>4, <2>5
  <1>3. CASE HandleUnchoke(p)
    <2>1. choked'[p] = FALSE /\ wire' = wire
      BY <1>3, <1>t DEF HandleUnchoke, pieceVars
    <2>2. QED
      BY <1>2, <1>3, <2>1 DEF HandleUnchoke
  <1>4. CASE HandleInterested(p)
    BY <1>2, <1>4 DEF HandleInterested, statusVars, pieceVars
  <1>5. CASE HandleHave(p)
    BY <1>2, <1>5 DEF HandleHave, pieceVars
  <1>6. CASE HandleBitfield(p)
    BY <1>2, <1>6 DEF HandleBitfield, pieceVars
  <1>7. CASE HandlePiece(p)
    <2> DEFINE m == Head(s)
    <2>1. Runs(p, "piece")
      BY <1>7 DEF HandlePiece
    <2>2. /\ s # <<>> /\ m.kind = "piece" /\ t \in Seq(Handler) /\ busy[p] = Idle /\ Sole(p)
          /\ Moving(s, Idle, a, choked[p], wire[p])
          /\ Has(s, "Clear") => Has(t, "Clear")
      BY <2>1, RunsGoing
    <2>3. UNCHANGED <<choked, wire>>
      BY <1>7 DEF HandlePiece, statusVars
    <2>4. ~Ends(m, a.piece) /\ \A i : Ending(s, i) => Ending(t, i)
      <3>1. ~Ends(m, a.piece) /\ \A i : ~Ends(m, i)
        BY <2>2 DEF Ends
      <3>2. QED
        BY <1>t, <2>2, <3>1, PopHolds
    <2>5. m.piece # a.piece => Moving(t, Idle, a, choked[p], wire[p])
      BY <1>c, <1>t, <2>2, <2>4, PopMoving DEF Reply
    <2>6. OneReset(t)
      BY <1>t, <2>2, TailReset DEF Moving
    <2>7. CASE /\ ~endGame /\ m.piece \notin requested
               /\ strand' = [strand EXCEPT ![p] = PostRead(p, Tail(@))] /\ busy' = busy
      <3>1. strand'[p] = PostRead(p, t) /\ busy'[p] = Idle
        BY <1>t, <2>2, <2>7
      <3>2. Moving(t, Idle, a, choked[p], wire[p])
        <4>1. CASE m.piece = a.piece /\ a.piece # NoPiece
          <5>1. Has(t, "Clear")
            BY <2>2, <2>7, <4>1 DEF Sole, OwnPiece
          <5>2. Ending(t, a.piece)
            BY <5>1 DEF Has, Ending, Ends
          <5>3. QED
            BY <2>6, <5>2, EndMoving
        <4>2. CASE a.piece = NoPiece
          BY <2>6, <4>2, EndMoving
        <4>3. QED
          BY <2>5, <4>1, <4>2
      <3>3. Moving(PostRead(p, t), Idle, a, choked[p], wire[p])
        BY <2>2, <3>2, PostReadMoving
      <3>4. Has(s, "Clear") => Has(strand'[p], "Clear")
        BY <2>2, <3>1, ClearStays
      <3>5. Sole(p)'
        BY <1>c, <1>u, <2>2, <3>1, <3>4, SoleKept
      <3>6. QED
        BY <1>u, <2>3, <3>1, <3>3, <3>5, GoingIs
    <2>8. CASE /\ busy' = busy
               /\ strand' = [strand EXCEPT ![p] = PostRead(p, Append(Tail(@), Post("Cancel", m.piece)))]
      <3> DEFINE h == Post("Cancel", m.piece)
                 u == Append(t, h)
      <3>1. m.piece \in Pieces
        <4>1. m \in Handler
          BY <2>1, RunsFit
        <4>2. QED
          BY <2>2, <4>1, HandlerTypes DEF PieceKinds
      <3>2. h \in Handler /\ h.kind = "Cancel" /\ h.piece = m.piece
        BY <3>1, HandlerTypes DEF PieceKinds, Post
      <3>3. strand'[p] = PostRead(p, u) /\ busy'[p] = Idle
        BY <1>t, <2>2, <2>8
      <3> HIDE DEF h
      <3>4. /\ \A k : Has(u, k) <=> Has(t, k) \/ h.kind = k
            /\ \A i : Ending(u, i) <=> Ending(t, i) \/ Ends(h, i)
        BY <2>2, <3>2, PushHolds
      <3>5. u \in Seq(Handler)
        BY <2>2, <3>2
      <3>6. Moving(u, Idle, a, choked[p], wire[p])
        <4>1. CASE m.piece = a.piece
          <5>1. OneReset(u) /\ Ending(u, a.piece)
            BY <2>6, <3>2, <3>4, <4>1 DEF OneReset, Ends
          <5>2. QED
            BY <5>1, EndMoving
        <4>2. CASE m.piece # a.piece
          BY <2>2, <2>5, <3>2, <4>2, PushMoving
        <4>3. QED
          BY <4>1, <4>2
      <3> HIDE DEF u
      <3>7. Moving(PostRead(p, u), Idle, a, choked[p], wire[p])
        BY <3>5, <3>6, PostReadMoving
      <3>8. Has(s, "Clear") => Has(strand'[p], "Clear")
        BY <2>2, <3>3, <3>4, <3>5, ClearStays
      <3>9. Sole(p)'
        BY <1>c, <1>u, <2>2, <3>3, <3>8, SoleKept
      <3>10. QED
        BY <1>u, <2>3, <3>3, <3>7, <3>9, GoingIs
    <2>9. CASE strand' = [strand EXCEPT ![p] = Tail(@)] /\ busy' = [busy EXCEPT ![p] = Rest("checked", m, TRUE)]
      <3>1. strand'[p] = t /\ busy'[p] = Rest("checked", m, TRUE)
        BY <1>t, <2>9
      <3>2. Moving(t, Rest("checked", m, TRUE), a, choked[p], wire[p])
        BY <1>t, <2>2, AcceptMoving
      <3>3. busy'[p].at = "checked"
        <4>1. Rest("checked", m, TRUE).at = "checked"
          BY DEF Rest
        <4>2. QED
          BY <3>1, <4>1
      <3>4. Sole(p)'
        BY <1>u, <2>2, <3>1, <3>3, SoleKept
      <3>5. QED
        BY <1>u, <2>3, <3>1, <3>2, <3>4, GoingIs
    <2>10. QED
      BY <1>7, <2>7, <2>8, <2>9 DEF HandlePiece
  <1>8. CASE PostBlock(p)
    <2> DEFINE u == Append(s, [busy[p].msg EXCEPT !.kind = "Block"])
    <2>1. busy[p].at = "checked" /\ busy[p] \in BusySet
      BY <1>8, <1>t DEF PostBlock
    <2>2. Moving(s, busy[p], a, choked[p], wire[p]) /\ Sole(p)
      BY DEF Going
    <2>3. u \in Seq(Handler) /\ Moving(u, Idle, a, choked[p], wire[p])
      BY <1>t, <2>1, <2>2, PostBlockMoving
    <2>4. /\ strand'[p] = PostRead(p, u) /\ busy'[p] = Idle /\ UNCHANGED <<choked, wire>>
      BY <1>8, <1>t DEF PostBlock, statusVars, pieceVars
    <2>5. Has(s, "Clear") => Has(u, "Clear")
      <3>1. busy[p].msg \in Handler /\ busy[p].msg.kind = "piece"
        BY <2>1, BusyFields
      <3>2. [busy[p].msg EXCEPT !.kind = "Block"] \in Handler
        BY <3>1 DEF Handler, PieceKinds, SignalKinds
      <3>3. QED
        BY <1>t, <3>2, ClearStays
    <2> HIDE DEF u
    <2>6. Moving(PostRead(p, u), Idle, a, choked[p], wire[p])
      BY <2>3, PostReadMoving
    <2>7. Has(s, "Clear") => Has(strand'[p], "Clear")
      BY <2>3, <2>4, <2>5, ClearStays
    <2>8. Sole(p)'
      BY <1>c, <1>u, <2>2, <2>4, <2>7, SoleKept
    <2>9. QED
      BY <1>u, <2>4, <2>6, <2>8, GoingIs
  <1>9. QED
    BY <1>1, <1>3, <1>4, <1>5, <1>6, <1>7, <1>8 DEF HandleResponse

LEMMA RunBlockGoing ==
    ASSUME TypeOK, ReadChain, Everyone, Ranged, NEW p \in Peers, Going(p), conn[p] # "down", RunBlock(p)
    PROVE  Going(p)'
  <1> DEFINE s == strand[p]
             h == Head(s)
             a == active[p]
             x == IF h.good THEN h.piece ELSE NoPiece
             new == [a EXCEPT !.count = @ + 1, !.blocks = [@ EXCEPT ![h.block + 1] = x]]
             t == Tail(s)
  <1>t. strand \in [Peers -> Seq(Handler)] /\ busy \in [Peers -> BusySet] /\ active \in [Peers -> ActiveSet]
    BY DEF TypeOK, StrandType, PieceType
  <1>1. Runs(p, "Block")
    BY DEF RunBlock
  <1>2. /\ Fit(s, Idle, a, reading[p], choked[p], wire[p], have) /\ h.kind = "Block" /\ Ordered(s) /\ h \in Handler
        /\ s # <<>> /\ busy[p] = Idle /\ t \in Seq(Handler) /\ s \in Seq(Handler) /\ a \in ActiveSet
    BY <1>1, RunsFit
  <1>3. Moving(s, Idle, a, choked[p], wire[p]) /\ Sole(p) /\ WholeWindows(a)
    BY <1>1, RunsGoing DEF Ranged
  <1>4. x \in Content
    BY <1>2, HandlerTypes DEF PieceKinds, Content
  <1>5. /\ a.piece = h.piece /\ a.piece \in Pieces /\ h.block < Len(a.blocks)
        /\ \A n \in 1 .. Len(s) : s[n].kind # "Clear"
    BY <1>2, <1>4, StoreFit
  <1>6. ~(a.piece = NoPiece \/ h.block >= Len(a.blocks)) /\ a.piece # NoPiece /\ ~Has(s, "Clear")
    <2>1. a.piece # NoPiece
      BY <1>5, PiecesAssumption
    <2>2. h.block \in Nat /\ Len(a.blocks) \in Nat
      BY <1>2 DEF Handler, ActiveSet
    <2>3. QED
      BY <1>5, <2>1, <2>2 DEF Has
  <1>7. /\ active' = [active EXCEPT ![p] = new]
        /\ \/ /\ new.count = BlockCount[a.piece]
              /\ jobs' = Append(jobs, [index |-> h.piece, piece |-> a.piece, blocks |-> new.blocks])
              /\ strand' = [strand EXCEPT ![p] = Append(Tail(@), Signal("Clear"))]
              /\ busy' = busy
           \/ /\ new.count # BlockCount[a.piece]
              /\ strand' = [strand EXCEPT ![p] = Tail(@)]
              /\ busy' = [busy EXCEPT ![p] = IF WindowFull(new.count) THEN CallTry(FALSE) ELSE @]
              /\ jobs' = jobs
        /\ UNCHANGED <<requested, endGame, job, choked, wire>>
    BY <1>6 DEF RunBlock, masterVars, statusVars
  <1>8. new.piece = a.piece
    BY <1>2 DEF ActiveSet
  <1>9. Moving(t, IF WindowFull(new.count) THEN CallTry(FALSE) ELSE Idle, new, choked[p], wire[p])
    BY <1>2, <1>3, <1>4, StoreMoving
  <1> HIDE DEF new, x
  <1>10. active'[p] = new
    BY <1>7, <1>t
  <1>11. CASE /\ strand' = [strand EXCEPT ![p] = Tail(@)] /\ jobs' = jobs
              /\ busy' = [busy EXCEPT ![p] = IF WindowFull(new.count) THEN CallTry(FALSE) ELSE @]
    <2> DEFINE b == IF WindowFull(new.count) THEN CallTry(FALSE) ELSE Idle
    <2>1. strand'[p] = t /\ busy'[p] = b
      BY <1>2, <1>11, <1>t
    <2>2. b.at # "chosen"
      BY RestFacts
    <2> HIDE DEF b
    <2>3. Sole(p)'
      BY <1>3, <1>6, <1>7, <1>8, <1>10, <1>11, <2>1, <2>2, SoleKept
    <2>4. Moving(t, b, new, choked[p], wire[p])
      BY <1>9 DEF b
    <2>5. QED
      BY <1>7, <1>10, <2>1, <2>3, <2>4, GoingIs
  <1>12. CASE /\ busy' = busy
              /\ jobs' = Append(jobs, [index |-> h.piece, piece |-> a.piece, blocks |-> new.blocks])
              /\ strand' = [strand EXCEPT ![p] = Append(Tail(@), Signal("Clear"))]
    <2> DEFINE u == Append(t, Signal("Clear"))
               j == [index |-> h.piece, piece |-> a.piece, blocks |-> new.blocks]
    <2>1. strand'[p] = u /\ busy'[p] = Idle
      BY <1>2, <1>12, <1>t
    <2>2. Moving(u, Idle, new, choked[p], wire[p])
      BY <1>2, LastMoving
    <2>3. Has(u, "Clear")
      <3>1. Signal("Clear") \in Handler /\ Signal("Clear").kind = "Clear"
        BY HandlerTypes, PostFacts DEF SignalKinds
      <3>2. QED
        BY <1>2, <3>1, PushHolds
    <2>4. j.index = a.piece
      BY <1>5
    <2>5. jobs' = Append(jobs, j) /\ jobs \in Seq(JobSet) /\ job' = job
      BY <1>7, <1>12 DEF TypeOK, WorkerType
    <2> HIDE DEF u, j
    <2>6. /\ Len(jobs') = Len(jobs) + 1 /\ Len(jobs) \in Nat /\ jobs'[Len(jobs) + 1] = j
          /\ \A n \in 1 .. Len(jobs) : jobs'[n] = jobs[n]
          /\ \A n \in 1 .. Len(jobs') : n \in 1 .. Len(jobs) \/ n = Len(jobs) + 1
      BY <2>5
    <2>7. ASSUME ~endGame PROVE OneJob' /\ JobsMarked' /\ OwnPiece(p)'
      <3>1. OneJob /\ JobsMarked /\ OwnPiece(p)
        BY <1>3, <2>7 DEF Sole
      <3>2. ~Pending(a.piece) /\ a.piece \in requested
        BY <1>5, <1>6, <3>1 DEF OwnPiece
      <3>3. (\A n \in 1 .. Len(jobs) : jobs[n].index # a.piece) /\ (\A w \in Workers : job[w] # a.piece)
        BY <3>2 DEF Pending
      <3>4. OneJob'
        <4>1. \A n, m \in 1 .. Len(jobs') : jobs'[n].index = jobs'[m].index => n = m
          BY <2>4, <2>6, <3>1, <3>3 DEF OneJob
        <4>2. \A n \in 1 .. Len(jobs'), w \in Workers : jobs'[n].index # job[w]
          BY <2>4, <2>6, <3>1, <3>3 DEF OneJob
        <4>3. QED
          BY <2>5, <3>1, <4>1, <4>2 DEF OneJob
      <3>5. \A i \in Pieces : Pending(i)' => Pending(i) \/ i = a.piece
        BY <2>4, <2>5, <2>6 DEF Pending
      <3>6. JobsMarked'
        BY <1>7, <3>1, <3>2, <3>5 DEF JobsMarked
      <3>7. Idle.at = "idle"
        BY RestFacts
      <3>8. OwnPiece(p)'
        BY <2>1, <2>3, <3>7 DEF OwnPiece, Has
      <3>9. QED
        BY <3>4, <3>6, <3>8
    <2>8. Sole(p)'
      BY <1>7, <2>7 DEF Sole
    <2>9. QED
      BY <1>7, <1>10, <2>1, <2>2, <2>8, GoingIs
  <1>13. QED
    BY <1>7, <1>11, <1>12

LEMMA RunHandlerGoing ==
    ASSUME Calm, TypeOK, ReadChain, Everyone, Ranged, NEW p \in Peers, Going(p), conn[p] # "down", RunHandler(p)
    PROVE  Going(p)'
  <1> DEFINE s == strand[p]
             t == Tail(s)
             a == active[p]
  <1>t. /\ strand \in [Peers -> Seq(Handler)] /\ busy \in [Peers -> BusySet] /\ active \in [Peers -> ActiveSet]
        /\ s \in Seq(Handler)
    BY DEF TypeOK, StrandType, PieceType
  <1>c. Idle.at = "idle" /\ CallTry(FALSE).at = "try" /\ NoActive.piece = NoPiece
    BY RestFacts DEF NoActive
  <1>1. CASE RunRead(p)
    <2>1. Runs(p, "Read")
      BY <1>1 DEF RunRead
    <2>2. /\ s # <<>> /\ Head(s).kind = "Read" /\ t \in Seq(Handler) /\ busy[p] = Idle /\ Sole(p)
          /\ Moving(s, Idle, a, choked[p], wire[p]) /\ (Has(s, "Clear") => Has(t, "Clear"))
      BY <2>1, RunsGoing
    <2>3. ~Ends(Head(s), a.piece) /\ ~Reply(Head(s), a.piece)
      BY <2>2 DEF Ends, Reply
    <2>4. Moving(t, Idle, a, choked[p], wire[p])
      BY <1>c, <1>t, <2>2, <2>3, PopMoving
    <2>5. strand'[p] = t /\ UNCHANGED <<busy, active, choked, wire, requested, endGame, jobs, job>>
      BY <1>1, <1>t DEF RunRead, masterVars, workerVars, statusVars, pieceVars
    <2>6. Sole(p)'
      BY <2>2, <2>5, SoleKept
    <2>7. QED
      BY <2>2, <2>4, <2>5, <2>6, GoingIs
  <1>2. CASE RunBlock(p)
    BY <1>2, RunBlockGoing
  <1>3. CASE RunChoked(p)
    <2>1. Runs(p, "Choked")
      BY <1>3 DEF RunChoked
    <2>2. /\ s # <<>> /\ Head(s).kind = "Choked" /\ busy[p] = Idle /\ Sole(p)
          /\ Moving(s, Idle, a, choked[p], wire[p])
      BY <2>1, RunsGoing
    <2>3. OneReset(t) /\ ~Has(s, "Clear")
      <3>1. Has(s, "Choked") /\ OneReset(s)
        BY <1>t, <2>2, PopHolds DEF Moving
      <3>2. QED
        BY <1>t, <2>2, <3>1, TailReset DEF OneReset
    <2>4. Moving(t, Idle, NoActive, choked[p], wire[p])
      BY <1>c, <2>3, EndMoving
    <2>5. /\ strand'[p] = t /\ active'[p] = NoActive /\ requested' = requested \ {a.piece}
          /\ UNCHANGED <<busy, choked, wire, endGame, jobs, job>>
      BY <1>3, <1>t DEF RunChoked, workerVars, statusVars
    <2>6. ASSUME ~endGame PROVE OneJob' /\ JobsMarked' /\ OwnPiece(p)'
      <3>1. OneJob /\ JobsMarked /\ OwnPiece(p)
        BY <2>2, <2>6 DEF Sole
      <3>2. \A i \in Pieces : Pending(i) => i # a.piece
        BY <2>3, <3>1 DEF OwnPiece
      <3>3. OneJob' /\ \A i : Pending(i)' <=> Pending(i)
        BY <2>5, <3>1 DEF OneJob, Pending
      <3>4. JobsMarked'
        BY <2>5, <3>1, <3>2, <3>3 DEF JobsMarked
      <3>5. \A i \in Pieces : i # NoPiece
        BY PiecesAssumption
      <3>6. OwnPiece(p)'
        BY <1>c, <2>2, <2>5, <3>5 DEF OwnPiece
      <3>7. QED
        BY <3>3, <3>4, <3>6
    <2>7. Sole(p)'
      BY <2>5, <2>6 DEF Sole
    <2>8. QED
      BY <2>2, <2>4, <2>5, <2>7, GoingIs
  <1>4. CASE RunClear(p)
    <2>1. Runs(p, "Clear")
      BY <1>4 DEF RunClear
    <2>2. s # <<>> /\ Sole(p) /\ Moving(s, Idle, a, choked[p], wire[p])
      BY <2>1, RunsGoing
    <2>3. OneReset(t)
      BY <1>t, <2>2, TailReset DEF Moving
    <2>4. Moving(t, CallTry(FALSE), NoActive, choked[p], wire[p])
      BY <1>c, <2>3, EndMoving
    <2>5. /\ strand'[p] = t /\ active'[p] = NoActive /\ busy'[p] = CallTry(FALSE)
          /\ UNCHANGED <<choked, wire, requested, endGame, jobs, job>>
      BY <1>4, <1>t DEF RunClear, masterVars, workerVars, statusVars
    <2>6. Sole(p)'
      BY <1>c, <2>2, <2>5, SoleKept
    <2>7. QED
      BY <2>4, <2>5, <2>6, GoingIs
  <1>5. CASE RunCancelCheck(p)
    <2>1. Runs(p, "CancelCheck")
      BY <1>5 DEF RunCancelCheck
    <2>2. /\ s # <<>> /\ Head(s).kind = "CancelCheck" /\ t \in Seq(Handler) /\ busy[p] = Idle /\ Sole(p)
          /\ Moving(s, Idle, a, choked[p], wire[p]) /\ (Has(s, "Clear") => Has(t, "Clear"))
      BY <2>1, RunsGoing
    <2>3. UNCHANGED <<active, choked, wire, requested, endGame, jobs, job>>
      BY <1>5 DEF RunCancelCheck, masterVars, workerVars, statusVars, pieceVars
    <2>4. CASE a.piece = Head(s).piece
      <3> DEFINE h == Post("Cancel", Head(s).piece)
                 u == Append(t, h)
      <3>1. h \in Handler /\ h.kind = "Cancel" /\ h.piece = a.piece
        <4>1. Head(s) \in Handler
          BY <2>1, RunsFit
        <4>2. Head(s).piece \in Pieces
          BY <2>2, <4>1, HandlerTypes DEF PieceKinds
        <4>3. QED
          BY <2>4, <4>2, HandlerTypes DEF PieceKinds, Post
      <3>2. strand'[p] = u /\ busy'[p] = CallTry(FALSE)
        BY <1>5, <1>t, <2>4 DEF RunCancelCheck
      <3> HIDE DEF h
      <3>3. /\ \A k : Has(u, k) <=> Has(t, k) \/ h.kind = k
            /\ \A i : Ending(u, i) <=> Ending(t, i) \/ Ends(h, i)
        BY <2>2, <3>1, PushHolds
      <3> HIDE DEF u
      <3>4. OneReset(t)
        BY <1>t, <2>2, TailReset DEF Moving
      <3>5. OneReset(u) /\ Ending(u, a.piece)
        BY <3>1, <3>3, <3>4 DEF OneReset, Ends
      <3>6. Moving(u, CallTry(FALSE), a, choked[p], wire[p])
        BY <3>5, EndMoving
      <3>7. Sole(p)'
        BY <1>c, <2>2, <2>3, <3>2, <3>3, SoleKept
      <3>8. QED
        BY <2>3, <3>2, <3>6, <3>7, GoingIs
    <2>5. CASE a.piece # Head(s).piece
      <3>1. strand'[p] = t /\ busy' = busy
        BY <1>5, <1>t, <2>5 DEF RunCancelCheck
      <3>2. ~Ends(Head(s), a.piece) /\ ~Reply(Head(s), a.piece)
        BY <2>2 DEF Ends, Reply
      <3>3. Moving(t, Idle, a, choked[p], wire[p])
        BY <1>c, <1>t, <2>2, <3>2, PopMoving
      <3>4. Sole(p)'
        BY <2>2, <2>3, <3>1, SoleKept
      <3>5. QED
        BY <2>2, <2>3, <3>1, <3>3, <3>4, GoingIs
    <2>6. QED
      BY <2>4, <2>5
  <1>6. CASE RunCancel(p)
    <2>1. Runs(p, "Cancel")
      BY <1>6 DEF RunCancel
    <2>2. /\ s # <<>> /\ Head(s).kind = "Cancel" /\ busy[p] = Idle /\ Sole(p)
          /\ Moving(s, Idle, a, choked[p], wire[p]) /\ (Has(s, "Clear") => Has(t, "Clear"))
      BY <2>1, RunsGoing
    <2>3. /\ strand'[p] = t /\ active'[p] = IF a.piece = Head(s).piece THEN NoActive ELSE a
          /\ UNCHANGED <<busy, choked, wire, requested, endGame, jobs, job>>
      BY <1>6, <1>t DEF RunCancel, masterVars, workerVars, statusVars
    <2>4. Sole(p)'
      BY <1>c, <2>2, <2>3, SoleKept
    <2>5. CASE a.piece = Head(s).piece
      <3>1. OneReset(t)
        BY <1>t, <2>2, TailReset DEF Moving
      <3>2. Moving(t, Idle, NoActive, choked[p], wire[p])
        BY <1>c, <3>1, EndMoving
      <3>3. QED
        BY <2>2, <2>3, <2>4, <2>5, <3>2, GoingIs
    <2>6. CASE a.piece # Head(s).piece
      <3>1. ~Ends(Head(s), a.piece) /\ ~Reply(Head(s), a.piece)
        BY <2>2, <2>6 DEF Ends, Reply
      <3>2. Moving(t, Idle, a, choked[p], wire[p])
        BY <1>c, <1>t, <2>2, <3>1, PopMoving
      <3>3. QED
        BY <2>2, <2>3, <2>4, <2>6, <3>2, GoingIs
    <2>7. QED
      BY <2>5, <2>6
  <1>7. CASE RunTry(p) \/ RunExpired(p) \/ RunTimeout(p) \/ RunKeepAlive(p)
    <2>1. PICK k \in {"Try", "Expired", "Timeout", "KeepAlive"} : Runs(p, k)
      BY <1>7 DEF RunTry, RunExpired, RunTimeout, RunKeepAlive
    <2>2. /\ Fit(s, Idle, active[p], reading[p], choked[p], wire[p], have) /\ Head(s).kind = k
          /\ s # <<>> /\ s \in Seq(Handler)
      BY <2>1, RunsFit
    <2>3. 1 \in 1 .. Len(s) /\ Head(s) = s[1]
      BY <2>2, SeqFacts
    <2>4. QED
      BY <2>1, <2>2, <2>3 DEF Fit, NoTimers
  <1>8. QED
    BY <1>1, <1>2, <1>3, <1>4, <1>5, <1>6, <1>7 DEF RunHandler

LEMMA ReturnGoing ==
    ASSUME TypeOK, NEW p \in Peers, Return(p)
    PROVE  /\ busy'[p] = Idle
           /\ Has(strand[p], "Clear") => Has(strand'[p], "Clear")
           /\ \A a, ch, wr : Moving(strand[p], Idle, a, ch, wr) => Moving(strand'[p], Idle, a, ch, wr)
  <1>1. strand[p] \in Seq(Handler) /\ strand \in [Peers -> Seq(Handler)] /\ busy \in [Peers -> BusySet]
    BY DEF TypeOK, StrandType
  <1>2. busy'[p] = Idle /\ (strand'[p] = strand[p] \/ strand'[p] = PostRead(p, strand[p]))
    BY <1>1 DEF Return
  <1>3. Has(strand[p], "Clear") => Has(PostRead(p, strand[p]), "Clear")
    BY <1>1, ClearStays
  <1>4. \A a, ch, wr : Moving(strand[p], Idle, a, ch, wr) => Moving(PostRead(p, strand[p]), Idle, a, ch, wr)
    BY <1>1, PostReadMoving
  <1>5. CASE strand'[p] = strand[p]
    BY <1>2, <1>5
  <1>6. CASE strand'[p] = PostRead(p, strand[p])
    BY <1>2, <1>3, <1>4, <1>6
  <1>7. QED
    BY <1>2, <1>5, <1>6

\* The first requests for a chosen piece.
LEMMA FreshBalance ==
    ASSUME NEW s \in Seq(Handler), NEW b \in BusySet, NEW a, NEW rd, NEW ch, NEW wr, NEW H,
           Fit(s, b, a, rd, ch, wr, H), b.at = "chosen"
    PROVE  LET f == Fresh(b.msg.piece) IN ~ch /\ Balanced(s, Idle, SendRequests(f), wr \cup RequestSet(f))
  <1> DEFINE i == b.msg.piece
             f == Fresh(i)
  <1>1. i \in Pieces /\ i # NoPiece
    BY BusyFields, PiecesAssumption
  <1>2. f \in ActiveSet /\ f.piece = i
    BY <1>1, FreshType
  <1>3. f.begin = 0 /\ f.count = 0
    BY DEF Fresh
  <1>4. /\ a.piece = NoPiece /\ ~ch /\ Asked(wr, i) = {}
        /\ \A n \in 1 .. Len(s) : s[n].kind = "piece" => s[n].piece # i
    BY DEF Fit, ChosenNew
  <1> HIDE DEF i, f
  <1>5. \A n \in 1 .. Len(s) : s[n].kind # "Block"
    <2>1. \A n \in 1 .. Len(s) : s[n] \in Handler
      OBVIOUS
    <2>2. \A n \in 1 .. Len(s) : s[n].kind = "Block" => s[n].piece \in Pieces
      BY <2>1, HandlerTypes DEF PieceKinds
    <2>3. QED
      BY <1>4, <2>2, PiecesAssumption DEF Fit, BlockFits
  <1>6. ~Coming(s, Idle, i) /\ Idle.at = "idle"
    BY <1>4, <1>5, RestFacts DEF Coming
  <1>7. Tally(s, Idle, f, wr) = Covered(f)
    <2>1. Cardinality(Asked(wr, i)) = 0
      BY <1>1, <1>4, AskedFinite
    <2>2. Covered(f) = 0
      BY <1>1, <1>2, <1>3, ServedFacts DEF Covered
    <2>3. QED
      BY <1>2, <1>3, <1>6, <2>1, <2>2 DEF Tally, Expected
  <1>8. f.piece \in Pieces /\ \A c \in Asked(wr, f.piece) : c < f.begin
    BY <1>1, <1>2, <1>4
  <1>9. Balanced(s, Idle, SendRequests(f), wr \cup RequestSet(f))
    BY <1>2, <1>6, <1>7, <1>8, SentBalance
  <1>10. QED
    BY <1>4, <1>9 DEF f, i

LEMMA TryGoing ==
    ASSUME Calm, TypeOK, ReadChain, Everyone, Ranged, NEW p \in Peers, Going(p), conn[p] # "down",
           TryToRequestPiece(p)
    PROVE  Going(p)'
  <1> DEFINE s == strand[p]
             a == active[p]
             b == busy[p]
  <1>t. /\ strand \in [Peers -> Seq(Handler)] /\ busy \in [Peers -> BusySet] /\ active \in [Peers -> ActiveSet]
        /\ DOMAIN wire = Peers /\ s \in Seq(Handler) /\ b \in BusySet /\ a \in ActiveSet
        /\ choked[p] \in BOOLEAN /\ conn \in [Peers -> {"new", "up", "down"}]
    BY DEF TypeOK, StrandType, PieceType, StatusType
  <1>c. Idle.at = "idle"
    BY RestFacts
  <1>m. Moving(s, b, a, choked[p], wire[p]) /\ Sole(p) /\ OneReset(s)
    BY DEF Going, Moving
  <1>u. conn[p] = "up"
    <2>1. b # Idle
      BY <1>c DEF TryToRequestPiece, TryNothing, TryChoose, TryRequest, TryContinue
    <2>2. QED
      BY <1>t, <2>1 DEF ReadChain, Chained
  <1>1. CASE TryNothing(p)
    <2>1. Return(p) /\ a.piece = NoPiece /\ UNCHANGED <<active, wire, choked, requested, endGame, jobs, job>>
      BY <1>1 DEF TryNothing, masterVars, workerVars, pieceVars
    <2>2. Moving(s, Idle, a, choked[p], wire[p])
      BY <1>m, <2>1, EndMoving
    <2>3. /\ busy'[p] = Idle /\ Moving(strand'[p], Idle, a, choked[p], wire[p])
          /\ Has(s, "Clear") => Has(strand'[p], "Clear")
      BY <2>1, <2>2, ReturnGoing
    <2>4. Sole(p)'
      BY <1>c, <1>m, <2>1, <2>3, SoleKept
    <2>5. QED
      BY <2>1, <2>3, <2>4, GoingIs
  <1>2. CASE TryChoose(p)
    <2>1. a.piece = NoPiece /\ UNCHANGED <<strand, active, wire, choked, requested, endGame, jobs, job>>
      BY <1>2 DEF TryChoose, masterVars, workerVars, pieceVars
    <2>2. PICK i \in Candidates(p) : busy' = [busy EXCEPT ![p] = Rest("chosen", Post("Try", i), @.reads)]
      BY <1>2 DEF TryChoose
    <2>3. endGame \/ i \notin requested
      BY <2>2 DEF Candidates
    <2>4. busy'[p] = Rest("chosen", Post("Try", i), b.reads)
      BY <1>t, <2>2
    <2>5. busy'[p].msg.piece = i
      <3>1. Rest("chosen", Post("Try", i), b.reads).msg.piece = i
        BY DEF Rest, Post
      <3>2. QED
        BY <2>4, <3>1
    <2>6. Sole(p)'
      BY <1>m, <2>1, <2>3, <2>5, SoleKept
    <2>7. Moving(s, busy'[p], a, choked[p], wire[p])
      BY <1>m, <2>1, EndMoving
    <2>8. QED
      BY <2>1, <2>6, <2>7, GoingIs
  <1>3. CASE TryRequest(p)
    <2> DEFINE i == b.msg.piece
               f == Fresh(i)
    <2>1. /\ b.at = "chosen" /\ Return(p) /\ Transmit(p, RequestSet(f))
          /\ active'[p] = SendRequests(f) /\ UNCHANGED <<choked, endGame, jobs, job>>
          /\ requested' = IF endGame THEN requested ELSE requested \cup {i}
      BY <1>3, <1>t DEF TryRequest, workerVars, statusVars
    <2>2. Fit(s, b, a, reading[p], choked[p], wire[p], have)
      BY DEF Everyone, Here
    <2>3. ~choked[p] /\ Balanced(s, Idle, SendRequests(f), wire[p] \cup RequestSet(f))
      BY <1>t, <2>1, <2>2, FreshBalance
    <2>4. wire'[p] = wire[p] \cup RequestSet(f)
      BY <1>t, <1>u, <2>1, <2>3 DEF Transmit
    <2>5. Moving(s, Idle, SendRequests(f), choked[p], wire'[p])
      <3> DEFINE x == SendRequests(f)
                 w == wire[p] \cup RequestSet(f)
      <3>1. ~choked[p] /\ Balanced(s, Idle, x, w) /\ wire'[p] = w
        BY <2>3, <2>4
      <3> HIDE DEF x, w
      <3>2. Moving(s, Idle, x, choked[p], wire'[p])
        BY <1>m, <3>1 DEF Moving
      <3>3. QED
        BY <3>2 DEF x
    <2>6. i \in Pieces /\ SendRequests(f).piece = i
      <3>1. i \in Pieces /\ i # NoPiece
        BY <1>t, <2>1, BusyFields, PiecesAssumption
      <3>2. f \in ActiveSet /\ f.piece = i
        BY <3>1, FreshType
      <3>3. QED
        BY <3>1, <3>2, SentFacts
    <2> HIDE DEF i, f
    <2>7. busy'[p] = Idle /\ Moving(strand'[p], Idle, SendRequests(f), choked[p], wire'[p])
      BY <2>1, <2>5, ReturnGoing
    <2>8. ASSUME ~endGame PROVE OneJob' /\ JobsMarked' /\ OwnPiece(p)'
      <3>1. OneJob /\ JobsMarked /\ OwnPiece(p)
        BY <1>m, <2>8 DEF Sole
      <3>2. OneJob' /\ \A j : Pending(j)' <=> Pending(j)
        BY <2>1, <3>1 DEF OneJob, Pending
      <3>3. requested' = requested \cup {i}
        BY <2>1, <2>8
      <3>4. JobsMarked'
        BY <3>1, <3>2, <3>3 DEF JobsMarked
      <3>5. active'[p].piece = i /\ i \in requested'
        BY <2>1, <2>6, <3>3
      <3>6. \A j \in Pieces : Pending(j) => j # i
        BY <2>1, <3>1 DEF OwnPiece, i
      <3>7. OwnPiece(p)'
        BY <1>c, <2>7, <3>2, <3>5, <3>6 DEF OwnPiece
      <3>8. QED
        BY <3>2, <3>4, <3>7
    <2>9. Sole(p)'
      BY <2>1, <2>8 DEF Sole
    <2>10. QED
      BY <2>1, <2>7, <2>9, GoingIs
  <1>4. CASE TryContinue(p)
    <2>1. b.at = "try" /\ a.piece # NoPiece /\ Return(p) /\ UNCHANGED <<choked, requested, endGame, jobs, job>>
      BY <1>4 DEF TryContinue, masterVars, workerVars, statusVars
    <2>2. busy'[p] = Idle /\ (Has(s, "Clear") => Has(strand'[p], "Clear"))
      BY <2>1, ReturnGoing
    <2>3. CASE AllAsked(a)
      <3>1. UNCHANGED <<active, wire>>
        BY <1>4, <2>3 DEF TryContinue, pieceVars
      <3>2. ASSUME Balanced(s, b, a, wire[p]) PROVE Balanced(s, Idle, a, wire[p])
        <4>1. Coming(s, Idle, a.piece) <=> Coming(s, b, a.piece)
          BY <1>c, <2>1, ComingIdle
        <4>2. Tally(s, Idle, a, wire[p]) = Tally(s, b, a, wire[p])
          BY <4>1 DEF Tally
        <4>3. ~(a.begin < BlockCount[a.piece])
          BY <1>t, <2>1, <2>3, BlockCountAssumption DEF AllAsked, ActiveSet, Content
        <4>4. QED
          BY <3>2, <4>2, <4>3 DEF Balanced
      <3>3. Moving(s, Idle, a, choked[p], wire[p])
        BY <1>m, <3>2 DEF Moving
      <3>4. Moving(strand'[p], Idle, a, choked[p], wire[p])
        BY <2>1, <3>3, ReturnGoing
      <3>5. Sole(p)'
        BY <1>c, <1>m, <2>1, <2>2, <3>1, SoleKept
      <3>6. QED
        BY <2>1, <2>2, <3>1, <3>4, <3>5, GoingIs
    <2>4. CASE ~AllAsked(a)
      <3> DEFINE x == SendRequests(a)
                 w == wire[p] \cup RequestSet(a)
      <3>1. Transmit(p, RequestSet(a)) /\ active'[p] = x
        BY <1>4, <1>t, <2>4 DEF TryContinue
      <3>2. x.piece = a.piece /\ a.piece \in Pieces
        BY <1>t, <2>1, SentFacts
      <3>3. ~choked[p] => wire'[p] = w
        BY <1>t, <1>u, <3>1 DEF Transmit
      <3>4. ASSUME Balanced(s, b, a, wire[p]) PROVE Balanced(s, Idle, x, w)
        <4>1. (\A c \in Asked(wire[p], a.piece) : c < a.begin) /\ Tally(s, b, a, wire[p]) = Covered(a)
          BY <3>4 DEF Balanced
        <4>2. b.at # "checked"
          BY <2>1
        <4>3. QED
          BY <1>t, <3>2, <4>1, <4>2, SentBalance
      <3> HIDE DEF x, w
      <3>5. Moving(s, Idle, x, choked[p], wire'[p])
        BY <1>m, <2>1, <3>2, <3>3, <3>4 DEF Moving
      <3>6. Moving(strand'[p], Idle, x, choked[p], wire'[p])
        BY <2>1, <3>5, ReturnGoing
      <3>7. Sole(p)'
        BY <1>c, <1>m, <2>1, <2>2, <3>1, <3>2, SoleKept
      <3>8. QED
        BY <2>1, <2>2, <3>1, <3>6, <3>7, GoingIs
    <2>5. QED
      BY <2>3, <2>4
  <1>5. QED
    BY <1>1, <1>2, <1>3, <1>4 DEF TryToRequestPiece

-----------------------------------------------------------------------------
(* Steps of a worker thread. *)

\* A thread takes the first write job.
LEMMA TakeSole ==
    ASSUME TypeOK, ThreadsFit, NEW p \in Peers, NEW w \in Workers, VerifyAndWrite(w), OneJob, JobsMarked, OwnPiece(p)
    PROVE  OneJob' /\ JobsMarked' /\ OwnPiece(p)'
  <1>1. /\ jobs \in Seq(JobSet) /\ job \in [Workers -> Content] /\ jobs # <<>> /\ jobs' = Tail(jobs)
        /\ job[w] = NoPiece /\ job' = [job EXCEPT ![w] = Head(jobs).index]
        /\ UNCHANGED <<requested, active, strand, busy>>
    BY DEF TypeOK, WorkerType, VerifyAndWrite, ThreadsFit, pieceVars, strandVars
  <1>2. /\ Len(jobs) \in Nat /\ Len(jobs) > 0 /\ Len(jobs') = Len(jobs) - 1 /\ Head(jobs) = jobs[1]
        /\ \A n \in 1 .. Len(jobs') : n + 1 \in 1 .. Len(jobs) /\ jobs'[n] = jobs[n + 1]
    BY <1>1, TailProps
  <1>3. 1 \in 1 .. Len(jobs) /\ \A n \in 1 .. Len(jobs') : n \in Int /\ n + 1 # 1
    BY <1>2
  <1>4. job'[w] = jobs[1].index /\ \A v \in Workers : v # w => job'[v] = job[v]
    BY <1>1, <1>2
  <1>5. OneJob'
    <2>1. ASSUME NEW n \in 1 .. Len(jobs'), NEW m \in 1 .. Len(jobs'), jobs'[n].index = jobs'[m].index PROVE n = m
      <3>1. n + 1 = m + 1
        BY <1>2, <2>1 DEF OneJob
      <3>2. QED
        BY <1>3, <3>1
    <2>2. ASSUME NEW n \in 1 .. Len(jobs'), NEW v \in Workers PROVE jobs'[n].index # job'[v]
      BY <1>2, <1>3, <1>4 DEF OneJob
    <2>3. ASSUME NEW u \in Workers, NEW v \in Workers, job'[u] = job'[v], job'[u] # NoPiece PROVE u = v
      BY <1>3, <1>4, <2>3 DEF OneJob
    <2>4. QED
      BY <2>1, <2>2, <2>3 DEF OneJob
  <1>6. ASSUME NEW i, Pending(i)' PROVE Pending(i)
    <2>1. CASE \E n \in 1 .. Len(jobs') : jobs'[n].index = i
      BY <1>2, <2>1 DEF Pending
    <2>2. CASE \E v \in Workers : job'[v] = i
      BY <1>3, <1>4, <2>2 DEF Pending
    <2>3. QED
      BY <1>6, <2>1, <2>2 DEF Pending
  <1>7. JobsMarked'
    BY <1>1, <1>6 DEF JobsMarked
  <1>8. OwnPiece(p)'
    BY <1>1, <1>6 DEF OwnPiece, Has
  <1>9. QED
    BY <1>5, <1>7, <1>8

\* The job is over: the piece is unmarked.
LEMMA UnbindSole ==
    ASSUME TypeOK, NEW p \in Peers, NEW w \in Workers, Unbind(w), OneJob, JobsMarked, OwnPiece(p)
    PROVE  OneJob' /\ JobsMarked' /\ OwnPiece(p)'
  <1>1. /\ job \in [Workers -> Content] /\ job[w] \in Pieces /\ requested' = requested \ {job[w]}
        /\ job' = [job EXCEPT ![w] = NoPiece]
        /\ UNCHANGED <<jobs, active, strand, busy>>
    BY DEF TypeOK, WorkerType, Unbind, pieceVars, strandVars
  <1>2. job'[w] = NoPiece /\ \A v \in Workers : v # w => job'[v] = job[v]
    BY <1>1
  <1>3. \A n \in 1 .. Len(jobs) : jobs[n].index # NoPiece
    <2>1. \A n \in 1 .. Len(jobs) : jobs[n] \in JobSet
      BY DEF TypeOK, WorkerType
    <2>2. QED
      BY <2>1, PiecesAssumption DEF JobSet
  <1>4. OneJob'
    BY <1>1, <1>2, <1>3 DEF OneJob
  <1>5. ASSUME NEW i \in Pieces, Pending(i)' PROVE Pending(i) /\ i # job[w]
    <2>1. i # NoPiece
      BY PiecesAssumption
    <2>2. CASE \E n \in 1 .. Len(jobs) : jobs[n].index = i
      BY <2>2 DEF Pending, OneJob
    <2>3. CASE \E v \in Workers : job'[v] = i
      <3>1. PICK v \in Workers : job'[v] = i
        BY <2>3
      <3>2. v # w /\ job[v] = i
        BY <1>2, <2>1, <3>1
      <3>3. QED
        BY <2>1, <3>2 DEF Pending, OneJob
    <2>4. QED
      BY <1>1, <1>5, <2>2, <2>3 DEF Pending
  <1>6. JobsMarked'
    BY <1>1, <1>5 DEF JobsMarked
  <1>7. active[p].piece = job[w] => Has(strand[p], "Clear")
    BY <1>1 DEF OwnPiece, Pending
  <1>8. OwnPiece(p)'
    BY <1>1, <1>5, <1>7 DEF OwnPiece, Has
  <1>9. QED
    BY <1>4, <1>6, <1>8

LEMMA WorkerGoing ==
    ASSUME TypeOK, ThreadsFit, NEW p \in Peers, Going(p), NEW w \in Workers, DownloadPiece(w)
    PROVE  Going(p)'
  <1>1. UNCHANGED <<conn, busy, active, choked, wire>>
    BY DEF DownloadPiece, VerifyAndWrite, Have, HaveLost, CountPiece, EndGameStep, Announce, Unbind,
           strandVars, statusVars, pieceVars
  <1>2. CASE conn[p] = "down"
    BY <1>1, <1>2 DEF Going
  <1>3. CASE conn[p] # "down"
    <2>1. Moving(strand[p], busy[p], active[p], choked[p], wire[p]) /\ Sole(p)
      BY <1>3 DEF Going
    <2>2. CASE EndGameStep(w)
      <3> DEFINE h == Post("CancelCheck", job[w])
      <3>1. h \in Handler /\ h.kind = "CancelCheck" /\ strand[p] \in Seq(Handler)
        BY <2>2, HandlerTypes DEF EndGameStep, TypeOK, WorkerType, StrandType, PieceKinds, Post
      <3>2. strand'[p] = strand[p] \/ strand'[p] = Append(strand[p], h)
        BY <2>2 DEF EndGameStep, PostToAll
      <3>3. UNCHANGED <<requested, jobs, job>> /\ (endGame' = endGame \/ ~endGame)
        BY <2>2 DEF EndGameStep
      <3> HIDE DEF h
      <3>4. Moving(strand'[p], busy[p], active[p], choked[p], wire[p])
        BY <2>1, <3>1, <3>2, PushMoving
      <3>5. Has(strand[p], "Clear") => Has(strand'[p], "Clear")
        BY <3>1, <3>2, ClearStays
      <3>6. Sole(p)'
        <4>1. CASE endGame' = endGame
          BY <1>1, <2>1, <3>3, <3>5, <4>1, SoleKept
        <4>2. CASE endGame' # endGame
          <5>1. ~endGame
            BY <2>2, <4>2 DEF EndGameStep
          <5>2. endGame' \in BOOLEAN /\ endGame \in BOOLEAN
            <6>1. TypeOK'
              BY DownloadPieceType
            <6>2. QED
              BY <6>1, Zenon DEF TypeOK, MasterType
          <5>3. endGame' = TRUE
            BY <4>2, <5>1, <5>2
          <5>4. QED
            BY <5>3 DEF Sole
        <4>3. QED
          BY <4>1, <4>2
      <3>7. QED
        BY <1>1, <3>4, <3>6, GoingIs
    <2>3. CASE ~EndGameStep(w)
      <3>1. strand' = strand /\ endGame' = endGame
        BY <2>3 DEF DownloadPiece, VerifyAndWrite, Have, HaveLost, CountPiece, Announce, Unbind, strandVars
      <3>2. Sole(p)'
        <4>1. CASE endGame
          BY <3>1, <4>1 DEF Sole
        <4>2. CASE ~endGame
          <5>1. OneJob /\ JobsMarked /\ OwnPiece(p)
            BY <2>1, <4>2 DEF Sole
          <5>2. CASE VerifyAndWrite(w)
            BY <5>1, <5>2, TakeSole DEF Sole
          <5>3. CASE Unbind(w)
            BY <5>1, <5>3, UnbindSole DEF Sole
          <5>4. CASE ~VerifyAndWrite(w) /\ ~Unbind(w)
            <6>1. UNCHANGED <<requested, jobs, job>>
              BY <2>3, <5>4 DEF DownloadPiece, Have, HaveLost, CountPiece, Announce
            <6>2. QED
              BY <1>1, <2>1, <3>1, <6>1, SoleKept
          <5>5. QED
            BY <5>2, <5>3, <5>4
        <4>3. QED
          BY <4>1, <4>2
      <3>3. QED
        BY <1>1, <2>1, <3>1, <3>2, GoingIs
    <2>4. QED
      BY <2>2, <2>3
  <1>4. QED
    BY <1>2, <1>3

-----------------------------------------------------------------------------
\* A client that is down stays down.
LEMMA DownStays ==
    ASSUME TypeOK, NEW p \in Peers, conn[p] = "down", Environment(p) \/ Strand(p)
    PROVE  conn'[p] = "down"
  <1>t. DOMAIN conn = Peers
    BY DEF TypeOK, StatusType
  <1>1. CASE Environment(p)
    <2>1. CASE Access(p) \/ Disconnect(p)
      BY <2>1 DEF Access, Disconnect
    <2>2. CASE RemoteServes(p) \/ RemoteDisturbs(p)
      BY <2>2 DEF RemoteServes, RemoteDisturbs, Deliver
    <2>3. CASE PieceTimerFires(p) \/ KeepAliveTimerFires(p)
      BY <2>3 DEF PieceTimerFires, KeepAliveTimerFires, statusVars
    <2>4. QED
      BY <1>1, <2>1, <2>2, <2>3 DEF Environment
  <1>2. CASE HandleResponse(p)
    BY <1>2 DEF HandleResponse, HandleChoke, HandleUnchoke, HandleInterested, HandleHave, HandleBitfield,
                HandlePiece, PostBlock, statusVars
  <1>3. CASE RunHandler(p)
    BY <1>3 DEF RunHandler, RunRead, RunBlock, RunChoked, RunClear, RunTry, RunCancelCheck, RunCancel,
                RunExpired, RunTimeout, RunKeepAlive, statusVars
  <1>4. CASE TryToRequestPiece(p)
    BY <1>4 DEF TryToRequestPiece, TryNothing, TryChoose, TryRequest, TryContinue, statusVars
  <1>5. QED
    BY <1>1, <1>2, <1>3, <1>4 DEF Strand

AllGoing == \A p \in Peers : Going(p)

LEMMA InitGoing == Init => AllGoing
  <1> SUFFICES ASSUME Init, NEW p \in Peers PROVE Going(p)
    BY DEF AllGoing
  <1>1. /\ strand[p] = <<>> /\ busy[p] = Idle /\ active[p] = NoActive /\ jobs = <<>>
        /\ \A w \in Workers : job[w] = NoPiece
    BY DEF Init
  <1>2. NoActive.piece = NoPiece /\ Idle.at = "idle"
    BY RestFacts DEF NoActive
  <1>3. Len(strand[p]) = 0 /\ Len(jobs) = 0
    BY <1>1
  <1>4. Moving(strand[p], busy[p], active[p], choked[p], wire[p])
    BY <1>1, <1>2, <1>3 DEF Moving, OneReset, Has
  <1>5. \A i \in Pieces : ~Pending(i)
    BY <1>1, <1>3, PiecesAssumption DEF Pending
  <1>6. OneJob /\ JobsMarked /\ OwnPiece(p)
    BY <1>1, <1>2, <1>3, <1>5 DEF OneJob, JobsMarked, OwnPiece
  <1>7. QED
    BY <1>4, <1>6 DEF Going, Sole

LEMMA StepGoing ==
    ASSUME Calm, Single
    PROVE  TypeOK /\ ReadChain /\ CalmInv /\ Ranged /\ AllGoing /\ [Next]_vars => AllGoing'
  <1> SUFFICES ASSUME TypeOK, ReadChain, CalmInv, Ranged, AllGoing, [Next]_vars, NEW q \in Peers PROVE Going(q)'
    BY DEF AllGoing
  <1>1. Everyone /\ ThreadsFit /\ Going(q)
    BY DEF CalmInv, AllGoing
  <1>2. ASSUME NEW p \in Peers, Environment(p) \/ Strand(p) PROVE Going(q)'
    <2>1. p = q
      BY DEF Single
    <2>2. CASE conn[q] = "down"
      <3>1. conn'[q] = "down"
        BY <1>2, <2>1, <2>2, DownStays
      <3>2. QED
        BY <3>1 DEF Going
    <2>3. CASE conn[q] # "down"
      <3>1. Environment(q) \/ HandleResponse(q) \/ RunHandler(q) \/ TryToRequestPiece(q)
        BY <1>2, <2>1 DEF Strand
      <3>2. QED
        BY <1>1, <2>3, <3>1, EnvironmentGoing, HandleResponseGoing, RunHandlerGoing, TryGoing
    <2>4. QED
      BY <2>2, <2>3
  <1>3. ASSUME NEW w \in Workers, DownloadPiece(w) PROVE Going(q)'
    BY <1>1, <1>3, WorkerGoing
  <1>4. CASE UNCHANGED vars
    <2>1. UNCHANGED <<requested, endGame, jobs, job, strand, busy, active, choked, wire, conn>>
      BY <1>4 DEF vars, masterVars, workerVars, statusVars, pieceVars, strandVars
    <2>2. CASE conn[q] = "down"
      BY <2>1, <2>2 DEF Going
    <2>3. CASE conn[q] # "down"
      <3>1. Moving(strand[q], busy[q], active[q], choked[q], wire[q]) /\ Sole(q)
        BY <1>1, <2>3 DEF Going
      <3>2. Sole(q)'
        BY <2>1, <3>1, SoleKept
      <3>3. QED
        BY <2>1, <3>1, <3>2, GoingIs
    <2>4. QED
      BY <2>2, <2>3
  <1>5. QED
    BY <1>2, <1>3, <1>4 DEF Next

\* Nothing queued, nothing running and nothing to come: all that was asked for is stored,
\* and a window stored whole was followed by the next.
LEMMA GoingAdvances == TypeOK /\ AllGoing => WindowAdvances
  <1> SUFFICES ASSUME TypeOK, AllGoing, NEW p \in Peers, conn[p] = "up", Quiet(p)
               PROVE  active[p].begin >= BlockCount[active[p].piece]
    BY DEF WindowAdvances
  <1> DEFINE a == active[p]
             i == a.piece
  <1>1. strand[p] = <<>> /\ busy[p] = Idle /\ i # NoPiece /\ \A r \in Answerable(p) : r[1] # i
    BY DEF Quiet
  <1>2. /\ a \in ActiveSet /\ a.begin \in Nat /\ a.count \in Nat /\ i \in Pieces
        /\ BlockCount[i] \in Nat /\ Served(i) \in Nat /\ BlockCount[i] <= Served(i) + 1
    BY <1>1, ServedFacts DEF TypeOK, PieceType, ActiveSet, Content
  <1>3. Idle.at = "idle" /\ Len(strand[p]) = 0
    BY <1>1, RestFacts
  <1>4. Moving(strand[p], Idle, a, choked[p], wire[p])
    BY <1>1 DEF AllGoing, Going
  <1>5. ~Ending(strand[p], i) /\ ~Coming(strand[p], Idle, i)
    BY <1>3 DEF Ending, Coming
  <1>6. Asked(wire[p], i) = {}
    <2>1. ASSUME NEW c \in Asked(wire[p], i) PROVE FALSE
      <3>1. c \in 0 .. (Served(i) - 1) /\ <<i, c>> \in wire[p]
        BY <2>1 DEF Asked
      <3>2. c < Served(i)
        BY <1>2, <3>1
      <3>3. <<i, c>>[1] = i /\ <<i, c>>[2] = c
        OBVIOUS
      <3>4. <<i, c>> \in Answerable(p)
        BY <3>1, <3>2, <3>3 DEF Answerable
      <3>5. QED
        BY <1>1, <3>3, <3>4
    <2>2. QED
      BY <2>1
  <1>7. Cardinality(Asked(wire[p], i)) = 0
    BY <1>2, <1>6, AskedFinite
  <1>8. Balanced(strand[p], Idle, a, wire[p])
    BY <1>1, <1>4, <1>5 DEF Moving
  <1>9. a.count = Covered(a)
    <2>1. Tally(strand[p], Idle, a, wire[p]) = (a.count + 0) + 0
      BY <1>5, <1>7 DEF Tally, Expected
    <2>2. QED
      BY <1>2, <1>8, <2>1 DEF Balanced
  <1>10. ASSUME a.begin < BlockCount[i] PROVE FALSE
    <2>1. Covered(a) = a.begin
      BY <1>2, <1>10 DEF Covered
    <2>2. QED
      BY <1>3, <1>8, <1>9, <1>10, <2>1 DEF Balanced
  <1>11. QED
    BY <1>2, <1>10

\* One client never waits with blocks of its piece not asked for, whatever the sizes of the
\* pieces, however its messages and its handlers interleave with the write jobs, whatever it
\* is sent, and also in the end game: whenever all the requests of a window that lie in the
\* piece were answered, OnPieceBlock's lambda has called TryToRequestPiece for the next.
\* Calm excludes timers, late answers, lost bits and answers past the end of a piece.
THEOREM WindowMoves == ASSUME Calm, Single PROVE Spec => []WindowAdvances
  <1>1. Init => Ranged
    BY DEF Init, Ranged, WholeWindows, InRange, NoActive
  <1>2. Spec => [](TypeOK /\ CalmInv)
    BY CalmKept
  <1>3. QED
    BY <1>1, <1>2, InitGoing, StepGoing, GoingAdvances, StepRanged, InitChained, StepChained, PTL DEF Spec
=============================================================================
