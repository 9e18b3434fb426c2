---------------------------- MODULE SharedLemmas ----------------------------
(***************************************************************************)
(* Facts that several proof modules share.                                 *)
(*                                                                         *)
(* Induction and recursion over the natural numbers, stated for sets and   *)
(* functions instead of operators, so that every prover can use them.      *)
(*                                                                         *)
(* The chain of handlers of AsioSocket: each handler of a socket begins at *)
(* most one operation, whose completion is the next link.  A lemma says    *)
(* what one function of AsioSocket does to the chain, for every record q   *)
(* that has the op, timer and strand which that function gives r.          *)
(***************************************************************************)
EXTENDS Integers, AsioSocket, WellFoundedInduction, TLAPS

Below == {ss \in Nat \X Nat : ss[1] < ss[2]}

\* Induction over the natural numbers, for a set.
LEMMA SetInduction ==
    ASSUME NEW S \in SUBSET Nat, 0 \in S, \A n \in S : n + 1 \in S
    PROVE  S = Nat
  <1>1. SUFFICES ASSUME Nat \ S # {} PROVE FALSE
    OBVIOUS
  <1>2. IsWellFoundedOn(Below, Nat)
    BY NatLessThanWellFounded DEF OpToRel, Below
  <1>3. PICK x \in Nat \ S : \A y \in Nat \ S : ~(<<y, x>> \in Below)
    BY <1>1, <1>2, WFMin
  <1>4. \A y \in Nat \ S : ~(y < x)
    BY <1>3 DEF Below
  <1>5. x # 0 /\ x - 1 \in Nat /\ x - 1 < x
    OBVIOUS
  <1>6. x - 1 \in S
    BY <1>4, <1>5
  <1>7. (x - 1) + 1 = x
    OBVIOUS
  <1>8. QED
    BY <1>6, <1>7

\* f is defined on 0 .. N by its first value and by what each next one is.
Defines(N, V, base, step, f) ==
    f \in [0 .. N -> V] /\ f[0] = base /\ \A n \in 1 .. N : f[n] = step[n][f[n - 1]]

\* A function defined by recursion over 0 .. N exists.
LEMMA Recursion ==
    ASSUME NEW N \in Nat, NEW V, NEW base \in V, NEW step \in [1 .. N -> [V -> V]]
    PROVE  \E f : Defines(N, V, base, step, f)
  <1> DEFINE Upto(f, k) == f[0] = base /\ \A n \in 1 .. k : f[n] = step[n][f[n - 1]]
             S == {k \in Nat : k <= N => \E f \in [0 .. k -> V] : Upto(f, k)}
  <1>1. 0 \in S
    <2>1. [i \in 0 .. 0 |-> base] \in [0 .. 0 -> V] /\ Upto([i \in 0 .. 0 |-> base], 0)
      OBVIOUS
    <2>2. QED
      BY <2>1
  <1>2. ASSUME NEW k \in S PROVE k + 1 \in S
    <2>1. SUFFICES ASSUME k + 1 <= N PROVE \E f \in [0 .. k + 1 -> V] : Upto(f, k + 1)
      OBVIOUS
    <2>2. k \in Nat /\ k <= N /\ k + 1 \in 1 .. N
      BY <2>1
    <2>3. PICK f \in [0 .. k -> V] : Upto(f, k)
      BY <2>2
    <2> DEFINE g == [i \in 0 .. k + 1 |-> IF i = k + 1 THEN step[k + 1][f[k]] ELSE f[i]]
    <2>4. step[k + 1][f[k]] \in V
      BY <2>2, <2>3
    <2>5. g \in [0 .. k + 1 -> V]
      BY <2>2, <2>3, <2>4
    <2>6. g[k + 1] = step[k + 1][f[k]] /\ \A i \in 0 .. k : g[i] = f[i]
      BY <2>2
    <2> HIDE DEF g
    <2>7. Upto(g, k + 1)
      <3>1. g[0] = base
        BY <2>2, <2>3, <2>6
      <3>2. ASSUME NEW n \in 1 .. k + 1 PROVE g[n] = step[n][g[n - 1]]
        <4>1. CASE n = k + 1
          <5>1. n - 1 = k /\ k \in 0 .. k
            BY <2>2, <4>1
          <5>2. QED
            BY <2>6, <4>1, <5>1
        <4>2. CASE n # k + 1
          <5>1. n \in 1 .. k /\ n \in 0 .. k /\ n - 1 \in 0 .. k
            BY <2>2, <4>2
          <5>2. QED
            BY <2>3, <2>6, <5>1
        <4>3. QED
          BY <4>1, <4>2
      <3>3. QED
        BY <3>1, <3>2
    <2>8. QED
      BY <2>5, <2>7
  <1> HIDE DEF S
  <1>3. S \in SUBSET Nat
    BY DEF S
  <1>4. S = Nat
    BY <1>1, <1>2, <1>3, SetInduction
  <1>5. N \in S /\ N <= N
    BY <1>4
  <1>6. QED
    BY <1>5 DEF S, Defines

-----------------------------------------------------------------------------
(* The socket of AsioSocket. *)

\* Timers whose handler goes on with the chain: do_try_connect_delay and
\* do_try_announce_delay.
Resumes == {"tryConnect", "tryAnnounce"}

\* Timers that cancel no operation of the chain: one that is off, and that of a
\* participant once its socket belongs to a client.
Loose == {"off", "visit"}

IsLink(h) == h.do \in {"start", "done"} \/ h.kind \in Resumes
Cancels(h) == h.do = "expired" /\ h.kind \notin Loose

Places(r) == 1 .. Len(r.strand)

\* Nothing is under way.
Unlinked(r) ==
    /\ r.op = NoOp /\ r.timer.kind \notin Resumes
    /\ \A n \in Places(r) : ~IsLink(r.strand[n])

\* At most one thing is under way: an operation, a timer that resumes the chain, or
\* one handler.
OneLink(r) ==
    /\ \A m, n \in Places(r) : IsLink(r.strand[m]) /\ IsLink(r.strand[n]) => m = n
    /\ r.op # NoOp => r.timer.kind \notin Resumes
    /\ r.op # NoOp \/ r.timer.kind \in Resumes => \A n \in Places(r) : ~IsLink(r.strand[n])

\* The timer, and every Await still to run, is one for op.
TimedFor(r, op) ==
    /\ r.timer.kind \notin Loose => op \in Guarded(r.timer.guards)
    /\ \A k \in Places(r) : r.strand[k].do = "arm" => op \in Guarded(r.strand[k].op)

\* What may cancel the operation under way was made for it; what was made for an
\* earlier one stands before the handler that begins the operation.
TimersFit(r) ==
    /\ r.op # NoOp => /\ TimedFor(r, r.op)
                      /\ \A k \in Places(r) : Cancels(r.strand[k]) => r.op \in Guarded(r.strand[k].op)
    /\ r.timer.kind \in Resumes => TimedFor(r, r.timer.guards)
    /\ \A m \in Places(r) : IsLink(r.strand[m]) =>
          /\ TimedFor(r, r.strand[m].op)
          /\ \A k \in Places(r) : k > m =>
                /\ Cancels(r.strand[k]) => r.strand[m].op \in Guarded(r.strand[k].op)
                /\ r.strand[m].do \in {"done", "expired"} => r.strand[k].do # "arm"

\* No Await is left to run, and what may cancel an operation is left over from op,
\* which has ended.
Settled(r, op) ==
    /\ \A k \in Places(r) : /\ r.strand[k].do # "arm"
                            /\ Cancels(r.strand[k]) => op \in Guarded(r.strand[k].op)
    /\ r.timer.kind \notin Loose => op \in Guarded(r.timer.guards)

-----------------------------------------------------------------------------
(* Places in a strand. *)

\* The places of the strand of q, which is that of r without its first handler.
Pops(r, q) ==
    /\ 1 \in Places(r) /\ Head(r.strand) = r.strand[1]
    /\ \A n \in Places(q) : /\ n + 1 \in Places(r) /\ n + 1 > 1 /\ n + 1 # 1
                            /\ q.strand[n] = r.strand[n + 1]
    /\ \A m, n \in Places(q) : /\ m > n => m + 1 > n + 1
                               /\ m + 1 = n + 1 => m = n

LEMMA PopPlaces ==
    ASSUME NEW S, NEW s \in Seq(S), s # <<>>
    PROVE  /\ Tail(s) \in Seq(S) /\ Head(s) \in S
           /\ \A r, q : r.strand = s /\ q.strand = Tail(s) => Pops(r, q)
  <1>1. /\ Len(s) \in Nat \ {0} /\ Len(Tail(s)) = Len(s) - 1
        /\ Tail(s) \in Seq(S) /\ Head(s) = s[1] /\ Head(s) \in S
        /\ \A n \in 1 .. Len(Tail(s)) : Tail(s)[n] = s[n + 1]
    OBVIOUS
  <1>2. ASSUME NEW r, NEW q, r.strand = s, q.strand = Tail(s) PROVE Pops(r, q)
    BY <1>1, <1>2 DEF Pops, Places
  <1>3. QED
    BY <1>1, <1>2

\* The places of the strand of q, which is that of r with h behind it.
Posts(r, q, h) ==
    LET e == Len(r.strand) + 1 IN
    /\ \A n \in Places(r) : n \in Places(q) /\ e > n /\ ~(n > e) /\ n # e /\ q.strand[n] = r.strand[n]
    /\ e \in Places(q) /\ ~(e > e) /\ q.strand[e] = h
    /\ \A n \in Places(q) : n \in Places(r) \/ n = e

LEMMA PostPlaces ==
    ASSUME NEW S, NEW s \in Seq(S), NEW h \in S
    PROVE  /\ Append(s, h) \in Seq(S)
           /\ \A r, q : r.strand = s /\ q.strand = Append(s, h) => Posts(r, q, h)
  <1>1. /\ Len(s) \in Nat /\ Len(Append(s, h)) = Len(s) + 1
        /\ Append(s, h) \in Seq(S)
        /\ \A n \in 1 .. Len(s) : Append(s, h)[n] = s[n]
        /\ Append(s, h)[Len(s) + 1] = h
    OBVIOUS
  <1>2. ASSUME NEW r, NEW q, r.strand = s, q.strand = Append(s, h) PROVE Posts(r, q, h)
    BY <1>1, <1>2 DEF Posts, Places
  <1>3. QED
    BY <1>1, <1>2

-----------------------------------------------------------------------------
(* A handler is taken from the strand. *)

\* A link that ran leaves nothing under way.
LEMMA LinkPopped ==
    ASSUME NEW r, NEW q, Pops(r, q), OneLink(r),
           IsLink(Head(r.strand)), q.op = r.op, q.timer = r.timer
    PROVE  Unlinked(q)
  <1>1. 1 \in Places(r) /\ IsLink(r.strand[1])
    BY DEF Pops
  <1>2. r.op = NoOp /\ r.timer.kind \notin Resumes
    BY <1>1 DEF OneLink
  <1>3. \A n \in Places(q) : ~IsLink(q.strand[n])
    BY <1>1 DEF Pops, OneLink
  <1>4. QED
    BY <1>2, <1>3 DEF Unlinked

LEMMA LinkSettled ==
    ASSUME NEW r, NEW q, Pops(r, q), TimersFit(r),
           IsLink(Head(r.strand)), Head(r.strand).do \in {"done", "expired"},
           q.timer = r.timer
    PROVE  Settled(q, Head(r.strand).op)
  <1>1. 1 \in Places(r) /\ IsLink(r.strand[1]) /\ Head(r.strand) = r.strand[1]
    BY DEF Pops
  <1>2. \A k \in Places(r) : k > 1 =>
            /\ r.strand[k].do # "arm"
            /\ Cancels(r.strand[k]) => Head(r.strand).op \in Guarded(r.strand[k].op)
    BY <1>1 DEF TimersFit
  <1>3. TimedFor(r, Head(r.strand).op)
    BY <1>1 DEF TimersFit
  <1>4. \A k \in Places(q) :
            /\ q.strand[k].do # "arm"
            /\ Cancels(q.strand[k]) => Head(r.strand).op \in Guarded(q.strand[k].op)
    BY <1>2 DEF Pops
  <1>5. QED
    BY <1>3, <1>4 DEF Settled, TimedFor

LEMMA StartedChain ==
    ASSUME NEW r, NEW q, Pops(r, q), OneLink(r),
           Head(r.strand).do = "start",
           q.op = Head(r.strand).op, q.timer = r.timer
    PROVE  OneLink(q) /\ (TimersFit(r) => TimersFit(q))
  <1>1. 1 \in Places(r) /\ IsLink(r.strand[1]) /\ Head(r.strand) = r.strand[1]
    BY DEF Pops, IsLink
  <1>2. q.timer.kind \notin Resumes
    BY <1>1 DEF OneLink
  <1>3. \A n \in Places(q) : ~IsLink(q.strand[n])
    BY <1>1 DEF Pops, OneLink
  <1>4. OneLink(q)
    BY <1>2, <1>3 DEF OneLink
  <1>5. ASSUME TimersFit(r) PROVE TimersFit(q)
    <2>1. TimedFor(r, q.op) /\ \A k \in Places(r) : k > 1 => (Cancels(r.strand[k]) => q.op \in Guarded(r.strand[k].op))
      BY <1>1, <1>5 DEF TimersFit
    <2>2. TimedFor(q, q.op)
      BY <2>1 DEF Pops, TimedFor
    <2>3. \A k \in Places(q) : Cancels(q.strand[k]) => q.op \in Guarded(q.strand[k].op)
      BY <2>1 DEF Pops
    <2>4. QED
      BY <1>2, <1>3, <2>2, <2>3 DEF TimersFit
  <1>6. QED
    BY <1>4, <1>5

\* The chain of a strand without its first handler.
LEMMA PoppedChain ==
    ASSUME NEW r, NEW q, Pops(r, q), OneLink(r),
           q.op = r.op, q.timer = r.timer
    PROVE  OneLink(q) /\ (TimersFit(r) => TimersFit(q))
  <1>1. OneLink(q)
    <2>1. \A m, n \in Places(q) : IsLink(q.strand[m]) /\ IsLink(q.strand[n]) => m = n
      BY DEF Pops, OneLink
    <2>2. q.op # NoOp \/ q.timer.kind \in Resumes => \A n \in Places(q) : ~IsLink(q.strand[n])
      BY DEF Pops, OneLink
    <2>3. QED
      BY <2>1, <2>2 DEF OneLink
  <1>2. ASSUME TimersFit(r) PROVE TimersFit(q)
    <2>1. ASSUME NEW op, TimedFor(r, op) PROVE TimedFor(q, op)
      BY <2>1 DEF Pops, TimedFor
    <2>2. q.op # NoOp => /\ TimedFor(q, q.op)
                         /\ \A k \in Places(q) : Cancels(q.strand[k]) => q.op \in Guarded(q.strand[k].op)
      BY <1>2, <2>1 DEF Pops, TimersFit
    <2>3. q.timer.kind \in Resumes => TimedFor(q, q.timer.guards)
      BY <1>2, <2>1 DEF TimersFit
    <2>4. ASSUME NEW m \in Places(q), IsLink(q.strand[m])
          PROVE  /\ TimedFor(q, q.strand[m].op)
                 /\ \A k \in Places(q) : k > m =>
                       /\ Cancels(q.strand[k]) => q.strand[m].op \in Guarded(q.strand[k].op)
                       /\ q.strand[m].do \in {"done", "expired"} => q.strand[k].do # "arm"
      <3>1. m + 1 \in Places(r) /\ q.strand[m] = r.strand[m + 1]
        BY DEF Pops
      <3>2. TimedFor(r, r.strand[m + 1].op)
        BY <1>2, <2>4, <3>1 DEF TimersFit
      <3>3. \A k \in Places(q) : k > m => k + 1 \in Places(r) /\ k + 1 > m + 1 /\ q.strand[k] = r.strand[k + 1]
        BY DEF Pops
      <3>4. \A k \in Places(r) : k > m + 1 =>
                /\ Cancels(r.strand[k]) => r.strand[m + 1].op \in Guarded(r.strand[k].op)
                /\ r.strand[m + 1].do \in {"done", "expired"} => r.strand[k].do # "arm"
        BY <1>2, <2>4, <3>1 DEF TimersFit
      <3>5. QED
        BY <2>1, <3>1, <3>2, <3>3, <3>4
    <2>5. QED
      BY <2>2, <2>3, <2>4 DEF TimersFit
  <1>3. QED
    BY <1>1, <1>2

LEMMA ArmedChain ==
    ASSUME NEW r, NEW q, Pops(r, q), OneLink(r),
           Head(r.strand).do = "arm", q.op = r.op,
           q.timer = [kind |-> Head(r.strand).kind, guards |-> Head(r.strand).op]
    PROVE  OneLink(q) /\ (TimersFit(r) => TimersFit(q))
  <1>0. /\ 1 \in Places(r) /\ Head(r.strand) = r.strand[1] /\ r.strand[1].do = "arm"
        /\ q.timer.kind = r.strand[1].kind /\ q.timer.guards = r.strand[1].op
    BY DEF Pops
  <1>1. OneLink(q)
    <2>1. \A m, n \in Places(q) : IsLink(q.strand[m]) /\ IsLink(q.strand[n]) => m = n
      BY DEF Pops, OneLink
    <2>2. q.op # NoOp => q.timer.kind \notin Resumes /\ \A n \in Places(q) : ~IsLink(q.strand[n])
      BY <1>0 DEF Pops, OneLink, IsLink
    <2>3. q.timer.kind \in Resumes => \A n \in Places(q) : ~IsLink(q.strand[n])
      BY <1>0 DEF Pops, OneLink, IsLink
    <2>4. QED
      BY <2>1, <2>2, <2>3 DEF OneLink
  <1>2. ASSUME TimersFit(r) PROVE TimersFit(q)
    <2>1. ASSUME NEW op, TimedFor(r, op) PROVE TimedFor(q, op)
      <3>1. op \in Guarded(q.timer.guards)
        BY <1>0, <2>1 DEF TimedFor
      <3>2. QED
        BY <2>1, <3>1 DEF Pops, TimedFor
    <2>2. q.op # NoOp => /\ TimedFor(q, q.op)
                         /\ \A k \in Places(q) : Cancels(q.strand[k]) => q.op \in Guarded(q.strand[k].op)
      BY <1>2, <2>1 DEF Pops, TimersFit
    <2>3. q.timer.kind \in Resumes => TimedFor(q, q.timer.guards)
      BY <1>0, <1>2, <2>1 DEF TimersFit, IsLink
    <2>4. ASSUME NEW m \in Places(q), IsLink(q.strand[m])
          PROVE  /\ TimedFor(q, q.strand[m].op)
                 /\ \A k \in Places(q) : k > m =>
                       /\ Cancels(q.strand[k]) => q.strand[m].op \in Guarded(q.strand[k].op)
                       /\ q.strand[m].do \in {"done", "expired"} => q.strand[k].do # "arm"
      <3>1. m + 1 \in Places(r) /\ q.strand[m] = r.strand[m + 1]
        BY DEF Pops
      <3>2. TimedFor(r, r.strand[m + 1].op)
        BY <1>2, <2>4, <3>1 DEF TimersFit
      <3>3. \A k \in Places(q) : k > m => k + 1 \in Places(r) /\ k + 1 > m + 1 /\ q.strand[k] = r.strand[k + 1]
        BY DEF Pops
      <3>4. \A k \in Places(r) : k > m + 1 =>
                /\ Cancels(r.strand[k]) => r.strand[m + 1].op \in Guarded(r.strand[k].op)
                /\ r.strand[m + 1].do \in {"done", "expired"} => r.strand[k].do # "arm"
        BY <1>2, <2>4, <3>1 DEF TimersFit
      <3>5. QED
        BY <2>1, <3>1, <3>2, <3>3, <3>4
    <2>5. QED
      BY <2>2, <2>3, <2>4 DEF TimersFit
  <1>3. QED
    BY <1>1, <1>2

-----------------------------------------------------------------------------
(* A handler is posted. *)

LEMMA IdleChain == ASSUME NEW r, Unlinked(r) PROVE OneLink(r) /\ TimersFit(r)
  BY DEF Unlinked, OneLink, TimersFit

\* A handler that is no link.
LEMMA AsidePosted ==
    ASSUME NEW r, NEW q, NEW h, Posts(r, q, h), ~IsLink(h), q.op = r.op, q.timer = r.timer
    PROVE  (OneLink(r) => OneLink(q)) /\ (Unlinked(r) => Unlinked(q))
  <1>1. ASSUME Unlinked(r) PROVE Unlinked(q)
    BY <1>1 DEF Unlinked, Posts
  <1>2. ASSUME OneLink(r) PROVE OneLink(q)
    <2>1. \A m, n \in Places(q) : IsLink(q.strand[m]) /\ IsLink(q.strand[n]) => m = n
      BY <1>2 DEF OneLink, Posts
    <2>2. q.op # NoOp \/ q.timer.kind \in Resumes => \A n \in Places(q) : ~IsLink(q.strand[n])
      BY <1>2 DEF OneLink, Posts
    <2>3. QED
      BY <1>2, <2>1, <2>2 DEF OneLink
  <1>3. QED
    BY <1>1, <1>2

\* The next link of a chain that has nothing under way.
LEMMA LinkPosted ==
    ASSUME NEW r, NEW q, NEW h, Posts(r, q, h), Unlinked(r), q.op = r.op, q.timer = r.timer
    PROVE  /\ OneLink(q)
           /\ TimedFor(r, h.op) => TimersFit(q)
  <1>1. \A n \in Places(q) : IsLink(q.strand[n]) => n = Len(r.strand) + 1 /\ q.strand[n] = h
    BY DEF Unlinked, Posts
  <1>2. q.op = NoOp /\ q.timer.kind \notin Resumes
    BY DEF Unlinked
  <1>3. OneLink(q)
    BY <1>1, <1>2 DEF OneLink
  <1>4. ASSUME TimedFor(r, h.op) PROVE TimersFit(q)
    <2>1. h.op \in Guarded(h.op)
      BY DEF Guarded
    <2>2. TimedFor(q, h.op)
      BY <1>4, <2>1 DEF TimedFor, Posts
    <2>3. \A k \in Places(q) : ~(k > Len(r.strand) + 1)
      BY DEF Posts
    <2>4. QED
      BY <1>1, <1>2, <2>2, <2>3 DEF TimersFit
  <1>5. QED
    BY <1>3, <1>4

\* An Await for the operation whose beginning was posted.
LEMMA AwaitPosted ==
    ASSUME NEW r, NEW p, NEW q, NEW op, NEW kind, kind \notin Resumes,
           Posts(r, p, Start(op)), Posts(p, q, Arm(kind, op)), Unlinked(r),
           p.op = r.op, p.timer = r.timer, q.op = r.op, q.timer = r.timer
    PROVE  /\ OneLink(q)
           /\ TimedFor(r, op) => TimersFit(q)
  <1>1. /\ Start(op).op = op /\ Arm(kind, op).op = op /\ Arm(kind, op).do = "arm" /\ Start(op).do = "start"
        /\ Arm(kind, op).kind = kind
    BY DEF Start, Arm
  <1>2. ~IsLink(Arm(kind, op)) /\ ~Cancels(Arm(kind, op))
    BY <1>1 DEF IsLink, Cancels
  <1>3. OneLink(p) /\ (TimedFor(r, op) => TimersFit(p))
    BY <1>1, LinkPosted
  <1>4. OneLink(q)
    BY <1>2, <1>3, AsidePosted
  <1>5. ASSUME TimedFor(r, op) PROVE TimersFit(q)
    <2>1. \A n \in Places(p) : IsLink(p.strand[n]) => p.strand[n] = Start(op)
      BY DEF Unlinked, Posts
    <2>2. \A n \in Places(q) : IsLink(q.strand[n]) => q.strand[n] = Start(op) /\ n \in Places(p)
      BY <1>2, <2>1 DEF Posts
    <2>3. op \in Guarded(op)
      BY DEF Guarded
    <2>4. TimedFor(p, op)
      BY <1>1, <1>5 DEF TimedFor, Posts
    <2>5. TimedFor(q, op)
      BY <1>1, <2>3, <2>4 DEF TimedFor, Posts
    <2>6. \A m, k \in Places(q) : IsLink(q.strand[m]) /\ k > m =>
             (Cancels(q.strand[k]) => q.strand[m].op \in Guarded(q.strand[k].op))
      BY <1>2, <1>3, <1>5, <2>2 DEF TimersFit, Posts
    <2>7. q.op = NoOp /\ q.timer.kind \notin Resumes
      BY DEF Unlinked
    <2>8. QED
      BY <1>1, <2>2, <2>5, <2>6, <2>7 DEF TimersFit
  <1>6. QED
    BY <1>4, <1>5

-----------------------------------------------------------------------------
(* Operations and timers end. *)

LEMMA StoppedChain ==
    ASSUME NEW r, NEW q, q.strand = r.strand, q.op = r.op, q.timer = Off, OneLink(r)
    PROVE  OneLink(q) /\ (TimersFit(r) => TimersFit(q))
  <1>1. q.timer.kind \notin Resumes /\ q.timer.kind \in Loose /\ Places(q) = Places(r)
    BY DEF Off, Resumes, Loose, Places
  <1>2. OneLink(q)
    BY <1>1 DEF OneLink
  <1>3. ASSUME TimersFit(r) PROVE TimersFit(q)
    <2>1. ASSUME NEW op, TimedFor(r, op) PROVE TimedFor(q, op)
      BY <1>1, <2>1 DEF TimedFor
    <2>2. QED
      BY <1>1, <1>3, <2>1 DEF TimersFit
  <1>4. QED
    BY <1>2, <1>3

LEMMA EndedChain ==
    ASSUME NEW r, NEW q, NEW h, Posts(r, q, h), OneLink(r), r.op # NoOp,
           h.do = "done", h.op = r.op, q.op = NoOp, q.timer \in {r.timer, Off}
    PROVE  OneLink(q) /\ (TimersFit(r) => TimersFit(q))
  <1>1. q.timer.kind \notin Resumes /\ (q.timer = r.timer \/ q.timer.kind \in Loose)
    BY DEF Off, Resumes, Loose, OneLink
  <1>2. \A n \in Places(q) : IsLink(q.strand[n]) => n = Len(r.strand) + 1 /\ q.strand[n] = h
    BY DEF OneLink, Posts
  <1>3. OneLink(q)
    BY <1>1, <1>2 DEF OneLink
  <1>4. ASSUME TimersFit(r) PROVE TimersFit(q)
    <2>1. TimedFor(r, h.op)
      BY <1>4 DEF TimersFit
    <2>2. TimedFor(q, h.op)
      BY <1>1, <2>1 DEF TimedFor, Posts
    <2>3. \A k \in Places(q) : ~(k > Len(r.strand) + 1)
      BY DEF Posts
    <2>4. QED
      BY <1>1, <1>2, <2>2, <2>3 DEF TimersFit
  <1>5. QED
    BY <1>3, <1>4

LEMMA TimedOutChain ==
    ASSUME NEW r, NEW q, NEW h, Posts(r, q, h), OneLink(r),
           h.do = "expired", h.op = r.timer.guards, h.kind = r.timer.kind,
           q.op = r.op, q.timer = Off
    PROVE  OneLink(q) /\ (TimersFit(r) => TimersFit(q))
  <1>1. q.timer.kind \notin Resumes /\ q.timer.kind \in Loose
    BY DEF Off, Resumes, Loose
  <1>2. IsLink(h) <=> r.timer.kind \in Resumes
    BY DEF IsLink
  <1>3. OneLink(q)
    <2>1. CASE r.timer.kind \in Resumes
      <3>1. \A n \in Places(q) : IsLink(q.strand[n]) => n = Len(r.strand) + 1
        BY <2>1 DEF OneLink, Posts
      <3>2. q.op = NoOp
        BY <2>1 DEF OneLink
      <3>3. QED
        BY <1>1, <3>1, <3>2 DEF OneLink
    <2>2. CASE r.timer.kind \notin Resumes
      <3>1. \A n \in Places(q) : IsLink(q.strand[n]) => n \in Places(r) /\ IsLink(r.strand[n])
        BY <1>2, <2>2 DEF Posts
      <3>2. QED
        BY <1>1, <3>1 DEF OneLink
    <2>3. QED
      BY <2>1, <2>2
  <1>4. ASSUME TimersFit(r) PROVE TimersFit(q)
    <2>1. ASSUME NEW op, TimedFor(r, op) PROVE TimedFor(q, op) /\ (Cancels(h) => op \in Guarded(h.op))
      BY <1>1, <2>1 DEF TimedFor, Posts, Cancels
    <2>2. q.op # NoOp => /\ TimedFor(q, q.op)
                         /\ \A k \in Places(q) : Cancels(q.strand[k]) => q.op \in Guarded(q.strand[k].op)
      BY <1>4, <2>1 DEF TimersFit, Posts
    <2>3. ASSUME NEW m \in Places(q), IsLink(q.strand[m])
          PROVE  /\ TimedFor(q, q.strand[m].op)
                 /\ \A k \in Places(q) : k > m =>
                       /\ Cancels(q.strand[k]) => q.strand[m].op \in Guarded(q.strand[k].op)
                       /\ q.strand[m].do \in {"done", "expired"} => q.strand[k].do # "arm"
      <3>1. CASE m \in Places(r)
        <4>1. q.strand[m] = r.strand[m] /\ TimedFor(r, r.strand[m].op)
          BY <1>4, <2>3, <3>1 DEF TimersFit, Posts
        <4>2. TimedFor(q, q.strand[m].op) /\ (Cancels(h) => q.strand[m].op \in Guarded(h.op))
          BY <2>1, <4>1
        <4>3. \A k \in Places(r) : k > m =>
                  /\ Cancels(r.strand[k]) => r.strand[m].op \in Guarded(r.strand[k].op)
                  /\ r.strand[m].do \in {"done", "expired"} => r.strand[k].do # "arm"
          BY <1>4, <2>3, <3>1, <4>1 DEF TimersFit
        <4>4. \A k \in Places(q) : (k \in Places(r) /\ q.strand[k] = r.strand[k]) \/ q.strand[k] = h
          BY DEF Posts
        <4>5. QED
          BY <4>1, <4>2, <4>3, <4>4
      <3>2. CASE m = Len(r.strand) + 1
        <4>1. q.strand[m] = h /\ r.timer.kind \in Resumes
          BY <1>2, <2>3, <3>2 DEF Posts
        <4>2. TimedFor(q, h.op)
          BY <1>4, <2>1, <4>1 DEF TimersFit
        <4>3. \A k \in Places(q) : ~(k > m)
          BY <3>2 DEF Posts
        <4>4. QED
          BY <4>1, <4>2, <4>3
      <3>3. QED
        BY <3>1, <3>2 DEF Posts
    <2>4. QED
      BY <1>1, <2>2, <2>3 DEF TimersFit
  <1>5. QED
    BY <1>3, <1>4
=============================================================================
