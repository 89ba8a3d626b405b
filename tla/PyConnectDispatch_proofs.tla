---------------------- MODULE PyConnectDispatch_proofs ----------------------
(***************************************************************************)
(* Theorems about the two threads of a server, for any number of objects,  *)
(* any depth of callbacks and any bounds.                                  *)
(***************************************************************************)
EXTENDS PyConnectDispatch, SequenceTheorems, TLAPS

-----------------------------------------------------------------------------
(* The shape of a stack: what a frame is for is told by "at" and "kind",   *)
(* and these tell what it was called from.                                 *)

Sends == {"encrypt", "encrypting", "lock", "copy", "talk", "talking", "write"}

\* Where the caller of a frame goes on.
Beneath(f) ==
    CASE f.at \in Sends        -> IF f.kind = "assign" THEN {"select"}
                                  ELSE {"python", "destroy"}
      [] f.at = "python"       -> {"erase", "drop"}
      [] f.kind = "disconnect" -> {"python"}
      [] OTHER                 -> {"select"}

\* n is nextObjId: a declaration is only accepted while there are ids.
GoodFrame(f, n) ==
    /\ f.at \in Sends => f.kind \in {"call", "shutdown", "discover", "assign"}
    /\ f.at = "python" <=> f.kind \in {"callback", "script"}
    /\ f.at = "select" <=> f.kind = "io"
    /\ f.kind = "assign" => f.at \in Sends /\ f.id \in Id
    /\ f.kind = "disconnect" => f.at \in {"destroy", "erase"}
    /\ f.kind = "declare" => f.at \in {"touch", "gil", "push", "assign"} /\ n <= MaxId
    /\ f.at \in {"push", "assign"} => f.kind = "declare"
    /\ f.at = "assign" => f.id \in Id

Root(t) == IF t = "io" THEN "io" ELSE "script"

GoodStack(t, s, n) ==
    /\ s \in Seq(Frames) /\ s # <<>>
    /\ \A i \in 1..Len(s) : GoodFrame(s[i], n)
    /\ s[Len(s)].kind = Root(t)
    /\ \A i \in 1..(Len(s) - 1) :
         s[i].kind \notin {"io", "script"} /\ s[i + 1].at \in Beneath(s[i])

StacksGood == \A t \in Threads : GoodStack(t, stack[t], nextObjId)

\* The steps that are taken with the GIL.
NeedsGil(f) ==
    \/ f.at \in {"use", "drop", "destroy", "erase", "push"}
    \/ f.at \in Sends /\ f.kind # "assign"
GilHeld == \A t \in Threads : NeedsGil(Top(t)) => gil = t

\* What is about to be copied, and what is about to be written.
BuffersHold == \A t \in Threads : Top(t).kind # "assign" =>
    /\ Top(t).at \in {"lock", "copy"} =>
         encryptbuffer = Message(Top(t)) \/ encryptbuffer.kind = "assign"
    /\ Top(t).at \in {"talk", "talking", "write"} =>
         dispatchBuffer = Message(Top(t)) \/ dispatchBuffer.kind = "assign"

RestTyped ==
    /\ gil \in Threads \cup {None} /\ encrypting \in Threads \cup {None}
    /\ mutex \in [owner : Threads, depth : Nat \ {0}] \cup {Free}
    /\ encryptbuffer \in Content /\ dispatchBuffer \in Content
    /\ wire \subseteq [sent : Content, written : Content]
    /\ modules \in Seq(Id) /\ nextObjId \in 1..(MaxId + 1) /\ objCommMap \subseteq Id
    /\ stack = [t \in Threads |-> stack[t]]
    /\ up \in BOOLEAN /\ destroyed \in [Id -> Nat]
    /\ begun \in Nat /\ ended \in Nat /\ ops \in 0..MaxOps

DispatchInv ==
    RestTyped /\ StacksGood /\ LocksBalanced /\ GilHeld /\ BuffersHold /\ OwnFrames

-----------------------------------------------------------------------------
(* Stacks: replacing the top, calling and returning.                       *)

LEMMA ConsSeq ==
    ASSUME NEW S, NEW f \in S, NEW q \in Seq(S)
    PROVE  /\ <<f>> \o q \in Seq(S) /\ Len(<<f>> \o q) = Len(q) + 1
           /\ (<<f>> \o q)[1] = f
           /\ \A i \in 1..Len(q) : (<<f>> \o q)[i + 1] = q[i]
           /\ Head(<<f>> \o q) = f /\ Tail(<<f>> \o q) = q /\ <<f>> \o q # <<>>
  OBVIOUS

LEMMA ConsTwo ==
    ASSUME NEW S, NEW a \in S, NEW b \in S, NEW q \in Seq(S)
    PROVE  <<a, b>> \o q = <<a>> \o (<<b>> \o q)
<1>1. <<a>> \in Seq(S) /\ <<b>> \in Seq(S)
  OBVIOUS
<1>2. <<a>> \o <<b>> = <<a, b>>
  <2>1. <<a, b>> = Append(<<a>>, b)
    OBVIOUS
  <2>2. Append(<<a>>, b) = <<a>> \o <<b>>
    BY <1>1, AppendIsConcat
  <2> QED BY <2>1, <2>2
<1>3. (<<a>> \o <<b>>) \o q = <<a>> \o (<<b>> \o q)
  BY <1>1, ConcatAssociative
<1> QED BY <1>2, <1>3

LEMMA TailSeq ==
    ASSUME NEW S, NEW q \in Seq(S), q # <<>>
    PROVE  /\ Tail(q) \in Seq(S) /\ Len(Tail(q)) = Len(q) - 1 /\ Len(q) \in Nat \ {0}
           /\ Head(q) = q[1] /\ Head(q) \in S
           /\ \A i \in 1..(Len(q) - 1) : Tail(q)[i] = q[i + 1]
  OBVIOUS

LEMMA RootOnly ==
    ASSUME NEW t \in Threads, NEW n, NEW s, GoodStack(t, s, n)
    PROVE  /\ Head(s) = s[1] /\ Head(s) \in Frames /\ GoodFrame(Head(s), n)
           /\ \/ Len(s) > 1 /\ Head(s).kind \notin {"io", "script"}
              \/ Len(s) = 1 /\ Head(s).kind = Root(t) /\ Root(t) \in {"io", "script"}
<1>1. /\ Head(s) = s[1] /\ Head(s) \in Frames /\ Len(s) \in Nat \ {0}
      /\ GoodFrame(s[1], n)
  BY TailSeq DEF GoodStack
<1>2. CASE Len(s) = 1
  BY <1>1, <1>2 DEF GoodStack, Root
<1>3. CASE Len(s) > 1
  <2>1. 1 \in 1..(Len(s) - 1)
    BY <1>1, <1>3
  <2>2. s[1].kind \notin {"io", "script"}
    BY <2>1 DEF GoodStack
  <2> QED BY <1>1, <1>3, <2>2
<1>4. Len(s) = 1 \/ Len(s) > 1
  BY <1>1
<1> QED BY <1>1, <1>2, <1>3, <1>4

LEMMA ReplaceGood ==
    ASSUME NEW t \in Threads, NEW n, NEW s, GoodStack(t, s, n),
           NEW f \in Frames, GoodFrame(f, n), f.kind \notin {"io", "script"},
           Len(s) > 1, Beneath(f) = Beneath(Head(s))
    PROVE  GoodStack(t, <<f>> \o Tail(s), n)
<1> DEFINE r == <<f>> \o Tail(s)
<1>1. /\ Tail(s) \in Seq(Frames) /\ Len(Tail(s)) = Len(s) - 1 /\ Len(s) \in Nat \ {0}
      /\ Head(s) = s[1]
      /\ \A i \in 1..(Len(s) - 1) : Tail(s)[i] = s[i + 1]
  BY TailSeq DEF GoodStack
<1>2. /\ r \in Seq(Frames) /\ Len(r) = Len(s) /\ r[1] = f /\ r # <<>>
      /\ \A i \in 1..(Len(s) - 1) : r[i + 1] = s[i + 1]
  BY <1>1, ConsSeq
<1>3. \A i \in 2..Len(s) : r[i] = s[i]
  <2> TAKE i \in 2..Len(s)
  <2>1. i - 1 \in 1..(Len(s) - 1) /\ (i - 1) + 1 = i
    BY <1>1
  <2> QED BY <1>2, <2>1
<1> HIDE DEF r
<1>4. \A i \in 1..Len(r) : GoodFrame(r[i], n)
  BY <1>1, <1>2, <1>3 DEF GoodStack
<1>5. r[Len(r)].kind = Root(t)
  BY <1>1, <1>2, <1>3 DEF GoodStack
<1>6. \A i \in 1..(Len(r) - 1) :
         r[i].kind \notin {"io", "script"} /\ r[i + 1].at \in Beneath(r[i])
  <2> TAKE i \in 1..(Len(r) - 1)
  <2>1. CASE i = 1
    BY <1>1, <1>2, <1>3, <2>1 DEF GoodStack
  <2>2. CASE i # 1
    BY <1>1, <1>2, <1>3, <2>2 DEF GoodStack
  <2> QED BY <2>1, <2>2
<1>7. GoodStack(t, r, n)
  BY <1>2, <1>4, <1>5, <1>6 DEF GoodStack
<1> QED BY <1>7 DEF r

LEMMA PushGood ==
    ASSUME NEW t \in Threads, NEW n, NEW s, GoodStack(t, s, n),
           NEW f \in Frames, GoodFrame(f, n), f.kind \notin {"io", "script"},
           Head(s).at \in Beneath(f)
    PROVE  GoodStack(t, <<f>> \o s, n)
<1> DEFINE r == <<f>> \o s
<1>1. s \in Seq(Frames) /\ Len(s) \in Nat \ {0} /\ Head(s) = s[1]
  BY TailSeq DEF GoodStack
<1>2. /\ r \in Seq(Frames) /\ Len(r) = Len(s) + 1 /\ r[1] = f /\ r # <<>>
      /\ \A i \in 1..Len(s) : r[i + 1] = s[i]
  BY <1>1, ConsSeq
<1>3. \A i \in 2..Len(r) : i - 1 \in 1..Len(s) /\ r[i] = s[i - 1]
  <2> TAKE i \in 2..Len(r)
  <2>1. i - 1 \in 1..Len(s) /\ (i - 1) + 1 = i
    BY <1>1, <1>2
  <2> QED BY <1>2, <2>1
<1> HIDE DEF r
<1>4. \A i \in 1..Len(r) : GoodFrame(r[i], n)
  BY <1>1, <1>2, <1>3 DEF GoodStack
<1>5. r[Len(r)].kind = Root(t)
  BY <1>1, <1>2, <1>3 DEF GoodStack
<1>6. \A i \in 1..(Len(r) - 1) :
         r[i].kind \notin {"io", "script"} /\ r[i + 1].at \in Beneath(r[i])
  <2> TAKE i \in 1..(Len(r) - 1)
  <2>1. CASE i = 1
    BY <1>1, <1>2, <2>1
  <2>2. CASE i # 1
    <3>1. i - 1 \in 1..(Len(s) - 1) /\ r[i] = s[i - 1] /\ r[i + 1] = s[(i - 1) + 1]
      BY <1>1, <1>2, <1>3, <2>2
    <3> QED BY <3>1 DEF GoodStack
  <2> QED BY <2>1, <2>2
<1>7. GoodStack(t, r, n)
  BY <1>2, <1>4, <1>5, <1>6 DEF GoodStack
<1> QED BY <1>7 DEF r

LEMMA PopGood ==
    ASSUME NEW t \in Threads, NEW n, NEW s, GoodStack(t, s, n), Len(s) > 1
    PROVE  GoodStack(t, Tail(s), n) /\ Head(Tail(s)).at \in Beneath(Head(s))
<1> DEFINE r == Tail(s)
<1>1. /\ r \in Seq(Frames) /\ Len(r) = Len(s) - 1 /\ Len(s) \in Nat \ {0}
      /\ Head(s) = s[1]
      /\ \A i \in 1..(Len(s) - 1) : r[i] = s[i + 1]
  BY TailSeq DEF GoodStack
<1> HIDE DEF r
<1>2. r # <<>> /\ Head(r) = r[1] /\ r[1] = s[2]
  <2>1. Len(r) > 0 /\ 1 \in 1..(Len(s) - 1)
    BY <1>1
  <2>2. r # <<>>
    BY <2>1
  <2> QED BY <1>1, <2>1, <2>2
<1>3. \A i \in 1..Len(r) : GoodFrame(r[i], n)
  BY <1>1 DEF GoodStack
<1>4. r[Len(r)].kind = Root(t)
  BY <1>1 DEF GoodStack
<1>5. \A i \in 1..(Len(r) - 1) :
         r[i].kind \notin {"io", "script"} /\ r[i + 1].at \in Beneath(r[i])
  <2> TAKE i \in 1..(Len(r) - 1)
  <2>1. /\ i + 1 \in 1..(Len(s) - 1) /\ i \in 1..(Len(s) - 1)
        /\ r[i] = s[i + 1] /\ r[i + 1] = s[(i + 1) + 1]
    BY <1>1
  <2> QED BY <2>1 DEF GoodStack
<1>6. GoodStack(t, r, n)
  BY <1>1, <1>2, <1>3, <1>4, <1>5 DEF GoodStack
<1>7. Head(r).at \in Beneath(Head(s))
  BY <1>1, <1>2 DEF GoodStack
<1> QED BY <1>6, <1>7 DEF r

-----------------------------------------------------------------------------
(* What a step of thread t does to the stacks: f is its new top.           *)

Alike(f, g) == f.at = g.at /\ f.kind = g.kind /\ f.id = g.id
Still(t) == Top(t)'.at = Top(t).at /\ Top(t)'.kind = Top(t).kind /\ Top(t)'.id = Top(t).id
Moves(t, f) ==
    /\ stack' = [u \in Threads |-> stack'[u]] /\ StacksGood' /\ Top(t)' = f
    /\ \A u \in Threads : u # t => Still(u)

LEMMA OneStack ==
    ASSUME DispatchInv, NEW t \in Threads, NEW s, GoodStack(t, s, nextObjId),
           stack' = [stack EXCEPT ![t] = s], nextObjId' = nextObjId
    PROVE  Moves(t, Head(s))
  BY DEF Moves, StacksGood, DispatchInv, RestTyped, Top, Still

LEMMA TopGood ==
    ASSUME DispatchInv, NEW t \in Threads
    PROVE  /\ GoodStack(t, stack[t], nextObjId) /\ Top(t) \in Frames
           /\ GoodFrame(Top(t), nextObjId)
           /\ Top(t).kind \notin {"io", "script"} => Len(stack[t]) > 1
           /\ Top(t).kind \in {"io", "script"} => Top(t).kind = Root(t)
<1>1. GoodStack(t, stack[t], nextObjId)
  BY DEF DispatchInv, StacksGood
<1> DEFINE s == stack[t]
           n == nextObjId
<1>2. GoodStack(t, s, n)
  BY <1>1
<1> HIDE DEF s, n
<1>3. /\ Head(s) \in Frames /\ GoodFrame(Head(s), n)
      /\ \/ Len(s) > 1 /\ Head(s).kind \notin {"io", "script"}
         \/ Len(s) = 1 /\ Head(s).kind = Root(t) /\ Root(t) \in {"io", "script"}
  BY <1>2, RootOnly
<1>4. Top(t) = Head(s)
  BY DEF Top, s
<1> QED BY <1>1, <1>3, <1>4 DEF s, n

LEMMA FrameAt ==
    ASSUME NEW f \in Frames, NEW at \in Labels
    PROVE  /\ [f EXCEPT !.at = at] \in Frames /\ [f EXCEPT !.at = at].at = at
           /\ [f EXCEPT !.at = at].kind = f.kind /\ [f EXCEPT !.at = at].id = f.id
           /\ [f EXCEPT !.at = at].pos = f.pos /\ [f EXCEPT !.at = at].seen = f.seen
  BY DEF Frames

LEMMA FrameAtId ==
    ASSUME NEW f \in Frames, NEW at \in Labels, NEW id \in 0..MaxId, NEW g,
           g = [f EXCEPT !.at = at, !.id = id]
    PROVE  g \in Frames /\ g.at = at /\ g.kind = f.kind /\ g.id = id
  BY DEF Frames

LEMMA NewFrame ==
    ASSUME NEW at \in Labels, NEW kind \in Kinds, NEW id \in 0..MaxId
    PROVE  /\ Frame(at, kind, id) \in Frames /\ Frame(at, kind, id).at = at
           /\ Frame(at, kind, id).kind = kind /\ Frame(at, kind, id).id = id
  BY DispatchAssumption DEF Frame, Frames

LEMMA ReplaceMoves ==
    ASSUME DispatchInv, NEW t \in Threads, NEW f \in Frames, GoodFrame(f, nextObjId),
           f.kind \notin {"io", "script"}, Top(t).kind \notin {"io", "script"},
           Beneath(f) = Beneath(Top(t)), nextObjId' = nextObjId,
           stack' = [stack EXCEPT ![t] = <<f>> \o Tail(stack[t])]
    PROVE  Moves(t, f)
<1>1. GoodStack(t, <<f>> \o Tail(stack[t]), nextObjId)
  BY TopGood, ReplaceGood DEF Top
<1>2. Head(<<f>> \o Tail(stack[t])) = f
  <2>1. Tail(stack[t]) \in Seq(Frames)
    BY TopGood, TailSeq DEF GoodStack
  <2> QED BY <2>1, ConsSeq
<1> QED BY <1>1, <1>2, OneStack

LEMMA PushMoves ==
    ASSUME DispatchInv, NEW t \in Threads, NEW f \in Frames, GoodFrame(f, nextObjId),
           f.kind \notin {"io", "script"}, Top(t).at \in Beneath(f),
           nextObjId' = nextObjId, stack' = [stack EXCEPT ![t] = <<f>> \o stack[t]]
    PROVE  Moves(t, f)
<1>1. GoodStack(t, <<f>> \o stack[t], nextObjId)
  BY TopGood, PushGood DEF Top
<1>2. Head(<<f>> \o stack[t]) = f
  BY TopGood, ConsSeq DEF GoodStack
<1> QED BY <1>1, <1>2, OneStack

LEMMA MovedStill ==
    ASSUME DispatchInv, NEW t \in Threads
    PROVE  Moved(t, Top(t).at) = stack[t]
<1>1. stack[t] \in Seq(Frames) /\ stack[t] # <<>> /\ Top(t) \in Frames
  BY TopGood DEF GoodStack
<1>2. [Top(t) EXCEPT !.at = Top(t).at] = Top(t)
  BY <1>1 DEF Frames
<1>3. <<Head(stack[t])>> \o Tail(stack[t]) = stack[t]
  BY <1>1
<1> QED BY <1>2, <1>3 DEF Moved, Top

\* A call from where the caller also goes on.
LEMMA CallMoves ==
    ASSUME DispatchInv, NEW t \in Threads, NEW f \in Frames, GoodFrame(f, nextObjId),
           f.kind \notin {"io", "script"}, Top(t).at \in Beneath(f),
           nextObjId' = nextObjId, Call(t, Top(t).at, f)
    PROVE  Moves(t, f)
  BY MovedStill, PushMoves DEF Call

\* A call after which the caller goes on elsewhere.
LEMMA CallAtMoves ==
    ASSUME DispatchInv, NEW t \in Threads, NEW at \in Labels,
           NEW f \in Frames, GoodFrame(f, nextObjId), f.kind \notin {"io", "script"},
           at \in Beneath(f), Top(t).kind \notin {"io", "script"},
           GoodFrame([Top(t) EXCEPT !.at = at], nextObjId),
           Beneath([Top(t) EXCEPT !.at = at]) = Beneath(Top(t)),
           nextObjId' = nextObjId, Call(t, at, f)
    PROVE  Moves(t, f)
<1> DEFINE g == [Top(t) EXCEPT !.at = at]
           m == <<g>> \o Tail(stack[t])
<1>1. g \in Frames /\ g.at = at /\ g.kind = Top(t).kind
  BY TopGood, FrameAt
<1>2. GoodStack(t, m, nextObjId)
  <2> HIDE DEF g
  <2>1. GoodFrame(g, nextObjId) /\ Beneath(g) = Beneath(Top(t))
    BY DEF g
  <2> QED BY <1>1, <2>1, TopGood, ReplaceGood DEF Top
<1>3. Head(m) = g /\ m \in Seq(Frames)
  <2>1. Tail(stack[t]) \in Seq(Frames)
    BY TopGood, TailSeq DEF GoodStack
  <2> HIDE DEF g
  <2> QED BY <1>1, <2>1, ConsSeq
<1>4. stack' = [stack EXCEPT ![t] = <<f>> \o m]
  BY DEF Call, Moved
<1> HIDE DEF g, m
<1>5. GoodStack(t, <<f>> \o m, nextObjId)
  BY <1>1, <1>2, <1>3, PushGood
<1>6. Head(<<f>> \o m) = f
  BY <1>3, ConsSeq
<1> QED BY <1>4, <1>5, <1>6, OneStack

LEMMA ReturnMoves ==
    ASSUME DispatchInv, NEW t \in Threads, Top(t).kind \notin {"io", "script"},
           nextObjId' = nextObjId, Return(t)
    PROVE  \E f : Moves(t, f) /\ f.at \in Beneath(Top(t))
<1>1. GoodStack(t, Tail(stack[t]), nextObjId) /\ Head(Tail(stack[t])).at \in Beneath(Top(t))
  BY TopGood, PopGood DEF Top
<1>2. Moves(t, Head(Tail(stack[t])))
  BY <1>1, OneStack DEF Return
<1> QED BY <1>1, <1>2

LEMMA GotoMoves ==
    ASSUME DispatchInv, NEW t \in Threads, NEW at \in Labels,
           Top(t).kind \notin {"io", "script"},
           GoodFrame([Top(t) EXCEPT !.at = at], nextObjId),
           Beneath([Top(t) EXCEPT !.at = at]) = Beneath(Top(t)),
           nextObjId' = nextObjId, Goto(t, at)
    PROVE  Moves(t, [Top(t) EXCEPT !.at = at])
<1> DEFINE g == [Top(t) EXCEPT !.at = at]
<1>1. g \in Frames /\ g.kind = Top(t).kind
  BY TopGood, FrameAt
<1>2. stack' = [stack EXCEPT ![t] = <<g>> \o Tail(stack[t])]
  BY DEF Goto, Moved
<1>3. GoodFrame(g, nextObjId) /\ Beneath(g) = Beneath(Top(t))
  OBVIOUS
<1> HIDE DEF g
<1>4. Moves(t, g)
  BY <1>1, <1>2, <1>3, ReplaceMoves
<1> QED BY <1>4 DEF g

\* The usual cases: a sender goes on sending, a handler of the IO thread on
\* handling.
LEMMA SendMoves ==
    ASSUME DispatchInv, NEW t \in Threads, NEW at \in Sends, Top(t).at \in Sends,
           nextObjId' = nextObjId, Goto(t, at)
    PROVE  /\ Moves(t, [Top(t) EXCEPT !.at = at])
           /\ Top(t)'.at = at /\ Top(t)'.kind = Top(t).kind /\ Top(t)'.id = Top(t).id
<1>1. at \in Labels
  BY DEF Sends, Labels
<1>2. Top(t) \in Frames /\ GoodFrame(Top(t), nextObjId)
  BY TopGood
<1> DEFINE g == [Top(t) EXCEPT !.at = at]
<1>3. g.at = at /\ g.kind = Top(t).kind /\ g.id = Top(t).id
  BY <1>1, <1>2, FrameAt
<1> HIDE DEF g
<1>4. GoodFrame(g, nextObjId)
  BY <1>2, <1>3 DEF GoodFrame, Sends
<1>5. Beneath(g) = Beneath(Top(t))
  BY <1>3 DEF Beneath, Sends
<1>6. Top(t).kind \notin {"io", "script"}
  BY <1>2 DEF GoodFrame, Sends
<1>7. Moves(t, g)
  BY <1>1, <1>4, <1>5, <1>6, GotoMoves DEF g
<1> QED BY <1>3, <1>7 DEF Moves, g

-----------------------------------------------------------------------------
(* What a step of thread t does to the locks and the buffers.              *)

LEMMA MutexTyped ==
    ASSUME DispatchInv
    PROVE  /\ mutex = Free \/ (mutex.owner \in Threads /\ mutex.depth \in Nat \ {0})
           /\ Free.owner = None /\ Free.depth = 0 /\ None \notin Threads
  BY DispatchAssumption DEF DispatchInv, RestTyped, Free, Threads

LEMMA HeldTyped ==
    ASSUME NEW at
    PROVE  Held(at) \in {0, 1, 2}
  BY DEF Held

LEMMA HoldLock ==
    ASSUME DispatchInv, NEW t \in Threads, NEW f, Moves(t, f),
           UNCHANGED mutex, Held(f.at) = Held(Top(t).at)
    PROVE  LocksBalanced'
  BY DEF DispatchInv, LocksBalanced, Moves, Still

LEMMA TakeLock ==
    ASSUME DispatchInv, NEW t \in Threads, NEW f, Moves(t, f),
           Lock(t), Held(f.at) = Held(Top(t).at) + 1
    PROVE  LocksBalanced' /\ mutex' \in [owner : Threads, depth : Nat \ {0}]
<1>1. mutex'.owner = t /\ mutex'.depth = mutex.depth + 1
      /\ mutex' \in [owner : Threads, depth : Nat \ {0}]
  BY MutexTyped DEF Lock
<1>2. (IF mutex.owner = t THEN mutex.depth ELSE 0) = Held(Top(t).at)
  BY DEF DispatchInv, LocksBalanced
<1>3. mutex.depth + 1 = Held(f.at)
  BY <1>2, MutexTyped DEF Lock, Lockable
<1>4. ASSUME NEW u \in Threads, u # t
      PROVE  (IF mutex'.owner = u THEN mutex'.depth ELSE 0) = Held(Top(u)'.at)
  <2>1. mutex.owner # u /\ mutex'.owner # u
    BY <1>1, <1>4, MutexTyped DEF Lock, Lockable
  <2>2. Held(Top(u).at) = 0
    BY <2>1 DEF DispatchInv, LocksBalanced
  <2> QED BY <1>4, <2>1, <2>2 DEF Moves, Still
<1>5. (IF mutex'.owner = t THEN mutex'.depth ELSE 0) = Held(Top(t)'.at)
  BY <1>1, <1>3 DEF Moves
<1> QED BY <1>1, <1>4, <1>5 DEF LocksBalanced

LEMMA DropLock ==
    ASSUME DispatchInv, NEW t \in Threads, NEW f, Moves(t, f),
           Unlock, Held(Top(t).at) = Held(f.at) + 1
    PROVE  LocksBalanced' /\ mutex' \in [owner : Threads, depth : Nat \ {0}] \cup {Free}
<1>1. mutex.owner = t /\ mutex.depth = Held(Top(t).at) /\ Held(f.at) \in Nat
  <2>1. (IF mutex.owner = t THEN mutex.depth ELSE 0) = Held(Top(t).at)
    BY DEF DispatchInv, LocksBalanced
  <2> QED BY <2>1, HeldTyped
<1>2. mutex \in [owner : Threads, depth : Nat \ {0}]
  BY <1>1, MutexTyped DEF DispatchInv, RestTyped
<1>3. CASE mutex.depth = 1
  <2>1. mutex' = Free /\ mutex'.owner \notin Threads /\ Held(f.at) = 0
    BY <1>1, <1>3, MutexTyped DEF Unlock
  <2>2. \A u \in Threads : u # t => Held(Top(u).at) = 0
    BY <1>1 DEF DispatchInv, LocksBalanced
  <2> QED BY <2>1, <2>2 DEF LocksBalanced, Moves, Still
<1>4. CASE mutex.depth # 1
  <2>1. /\ mutex' = [mutex EXCEPT !.depth = mutex.depth - 1]
        /\ mutex'.owner = t /\ mutex'.depth = Held(f.at)
        /\ mutex' \in [owner : Threads, depth : Nat \ {0}]
    BY <1>1, <1>2, <1>4 DEF Unlock
  <2>2. \A u \in Threads : u # t => Held(Top(u).at) = 0
    BY <1>1 DEF DispatchInv, LocksBalanced
  <2> QED BY <2>1, <2>2 DEF LocksBalanced, Moves, Still
<1> QED BY <1>3, <1>4

LEMMA KeepGil ==
    ASSUME DispatchInv, NEW t \in Threads, NEW f, Moves(t, f),
           gil' = gil \/ gil \in {t, None}, NeedsGil(f) => gil' = t
    PROVE  GilHeld'
<1>1. ASSUME NEW u \in Threads, u # t, NeedsGil(Top(u))'
      PROVE  gil' = u
  <2>1. NeedsGil(Top(u))
    BY <1>1 DEF Moves, NeedsGil, Still
  <2>2. gil = u /\ u # None
    BY <2>1, MutexTyped DEF DispatchInv, GilHeld
  <2> QED BY <1>1, <2>2
<1>2. NeedsGil(Top(t))' => gil' = t
  BY DEF Moves, NeedsGil
<1> QED BY <1>1, <1>2 DEF GilHeld

\* Only a sender that holds the lock changes what is to be written.
LEMMA WritersAlone ==
    ASSUME DispatchInv, NEW t \in Threads, NEW u \in Threads, u # t,
           Held(Top(t).at) > 0
    PROVE  Held(Top(u).at) = 0
<1>1. mutex.owner = t
  BY DEF DispatchInv, LocksBalanced
<1> QED BY <1>1 DEF DispatchInv, LocksBalanced

\* Two senders at once: one of them assigns an id.
LEMMA SendersAlone ==
    ASSUME DispatchInv, NEW t \in Threads, NEW u \in Threads, u # t,
           Top(t).at \in Sends, Top(u).at \in Sends
    PROVE  Top(t).kind = "assign" \/ Top(u).kind = "assign"
  BY DEF DispatchInv, GilHeld, NeedsGil

LEMMA KeepBuffers ==
    ASSUME DispatchInv, NEW t \in Threads, NEW f, Moves(t, f),
           UNCHANGED <<encryptbuffer, dispatchBuffer>>,
           f.at \notin {"lock", "copy", "talk", "talking", "write"}
    PROVE  BuffersHold'
<1>1. ASSUME NEW u \in Threads, u # t, Top(u)'.kind # "assign"
      PROVE  /\ Top(u)'.at \in {"lock", "copy"} =>
                  encryptbuffer' = Message(Top(u))' \/ encryptbuffer'.kind = "assign"
             /\ Top(u)'.at \in {"talk", "talking", "write"} =>
                  dispatchBuffer' = Message(Top(u))' \/ dispatchBuffer'.kind = "assign"
  BY <1>1 DEF Moves, DispatchInv, BuffersHold, Still, Message
<1>2. Top(t)' = f
  BY DEF Moves
<1> QED BY <1>1, <1>2 DEF BuffersHold, Message

\* A step that neither takes nor gives g_mutex, outside of sending.
LEMMA PlainStep ==
    ASSUME DispatchInv, NEW t \in Threads, NEW f, Moves(t, f),
           UNCHANGED <<mutex, encryptbuffer, dispatchBuffer, wire>>,
           gil' = gil \/ gil \in {t, None}, NeedsGil(f) => gil' = t,
           Held(Top(t).at) = 0,
           f.at \notin {"lock", "copy", "talk", "talking", "write"}
    PROVE  StacksGood' /\ LocksBalanced' /\ GilHeld' /\ BuffersHold' /\ OwnFrames'
<1>1. Held(f.at) = 0
  BY DEF Held
<1>2. StacksGood'
  BY DEF Moves
<1>3. LocksBalanced'
  BY <1>1, HoldLock
<1>4. GilHeld'
  BY KeepGil
<1>5. BuffersHold'
  BY KeepBuffers
<1>6. OwnFrames'
  BY DEF DispatchInv, OwnFrames
<1> QED BY <1>2, <1>3, <1>4, <1>5, <1>6

-----------------------------------------------------------------------------
(* Sending.                                                                *)

LEMMA MessageTyped ==
    ASSUME NEW f \in Frames
    PROVE  Message(f) \in Content /\ Message(f).kind = f.kind
           /\ [Message(f) EXCEPT !.whole = FALSE] \in Content
           /\ [Message(f) EXCEPT !.whole = FALSE].kind = f.kind
  BY DEF Message, Content, Frames

LEMMA SenderTop ==
    ASSUME DispatchInv, NEW t \in Threads, Top(t).at \in Sends
    PROVE  /\ Top(t) \in Frames /\ Top(t).kind \notin {"io", "script", "callback"}
           /\ Top(t).kind # "assign" => gil = t
           /\ Top(t).kind = "assign" => Top(t).id \in Id
           /\ Beneath(Top(t)) = IF Top(t).kind = "assign" THEN {"select"}
                                ELSE {"python", "destroy"}
<1>1. Top(t) \in Frames /\ GoodFrame(Top(t), nextObjId)
  BY TopGood
<1>2. Top(t).kind \in {"call", "shutdown", "discover", "assign"}
  BY <1>1 DEF GoodFrame
<1>3. Top(t).kind # "assign" => gil = t
  BY DEF DispatchInv, GilHeld, NeedsGil
<1> QED BY <1>1, <1>2, <1>3 DEF GoodFrame, Beneath

\* The buffers of the other thread, when t encrypts.
LEMMA EncryptKeeps ==
    ASSUME DispatchInv, NEW t \in Threads, NEW u \in Threads, u # t,
           Top(t).at \in Sends, encryptbuffer'.kind = Top(t).kind,
           UNCHANGED dispatchBuffer, Still(u), Top(u)'.kind # "assign"
    PROVE  /\ Top(u)'.at \in {"lock", "copy"} =>
                encryptbuffer' = Message(Top(u))' \/ encryptbuffer'.kind = "assign"
           /\ Top(u)'.at \in {"talk", "talking", "write"} =>
                dispatchBuffer' = Message(Top(u))' \/ dispatchBuffer'.kind = "assign"
<1>1. Top(u)'.at \in {"lock", "copy"} => Top(t).kind = "assign"
  BY SendersAlone DEF Still, Sends
<1>2. Top(u)'.at \in {"talk", "talking", "write"} =>
        dispatchBuffer' = Message(Top(u))' \/ dispatchBuffer'.kind = "assign"
  BY DEF DispatchInv, BuffersHold, Still, Message
<1> QED BY <1>1, <1>2

LEMMA BeginEncryptInv ==
    ASSUME DispatchInv, NEW t \in Threads, BeginEncrypt(t)
    PROVE  DispatchInv'
<1>1. Top(t).at = "encrypt" /\ UNCHANGED nextObjId /\ Goto(t, "encrypting")
  BY DEF BeginEncrypt, At, objects
<1>2. PICK f : /\ Moves(t, f) /\ f.at = "encrypting" /\ f.kind = Top(t).kind
               /\ f.id = Top(t).id
  BY <1>1, SendMoves DEF Sends, Moves
<1>3. Top(t) \in Frames /\ (Top(t).kind # "assign" => gil = t)
  BY <1>1, SenderTop DEF Sends
<1>4. encryptbuffer' \in Content /\ encryptbuffer'.kind = Top(t).kind
  BY <1>3, MessageTyped DEF BeginEncrypt
<1>5. RestTyped'
  BY <1>2, <1>4 DEF BeginEncrypt, DispatchInv, RestTyped, objects, Moves
<1>6. LocksBalanced'
  BY <1>1, <1>2, HoldLock DEF BeginEncrypt, Held
<1>7. GilHeld'
  BY <1>2, <1>3, KeepGil DEF BeginEncrypt, NeedsGil
<1>8. BuffersHold'
  <2>1. Top(t)'.at = "encrypting"
    BY <1>2 DEF Moves
  <2>2. Top(t).at \in Sends /\ UNCHANGED dispatchBuffer
    BY <1>1 DEF Sends, BeginEncrypt
  <2>3. \A u \in Threads : u # t => Still(u)
    BY <1>2 DEF Moves
  <2> QED BY <1>4, <2>1, <2>2, <2>3, EncryptKeeps DEF BuffersHold
<1>9. OwnFrames'
  BY DEF BeginEncrypt, DispatchInv, OwnFrames
<1> QED BY <1>2, <1>5, <1>6, <1>7, <1>8, <1>9 DEF DispatchInv, Moves

LEMMA EndEncryptInv ==
    ASSUME DispatchInv, NEW t \in Threads, EndEncrypt(t)
    PROVE  DispatchInv'
<1>1. Top(t).at = "encrypting" /\ UNCHANGED nextObjId /\ Goto(t, "lock")
  BY DEF EndEncrypt, At, objects
<1>2. PICK f : /\ Moves(t, f) /\ f.at = "lock" /\ f.kind = Top(t).kind
               /\ f.id = Top(t).id
  BY <1>1, SendMoves DEF Sends, Moves
<1>3. Top(t) \in Frames /\ (Top(t).kind # "assign" => gil = t)
  BY <1>1, SenderTop DEF Sends
<1>4. encryptbuffer' = Message(Top(t)) /\ encryptbuffer' \in Content
      /\ encryptbuffer'.kind = Top(t).kind
  BY <1>3, MessageTyped DEF EndEncrypt
<1>5. RestTyped'
  BY <1>2, <1>4 DEF EndEncrypt, DispatchInv, RestTyped, objects, Moves
<1>6. LocksBalanced'
  BY <1>1, <1>2, HoldLock DEF EndEncrypt, Held
<1>7. GilHeld'
  BY <1>2, <1>3, KeepGil DEF EndEncrypt, NeedsGil
<1>8. BuffersHold'
  <2>1. Top(t)'.at = "lock" /\ encryptbuffer' = Message(Top(t))'
    BY <1>2, <1>4 DEF Moves, Message
  <2>2. Top(t).at \in Sends /\ UNCHANGED dispatchBuffer
    BY <1>1 DEF Sends, EndEncrypt
  <2>3. \A u \in Threads : u # t => Still(u)
    BY <1>2 DEF Moves
  <2> QED BY <1>4, <2>1, <2>2, <2>3, EncryptKeeps DEF BuffersHold
<1>9. OwnFrames'
  BY DEF EndEncrypt, DispatchInv, OwnFrames
<1> QED BY <1>2, <1>5, <1>6, <1>7, <1>8, <1>9 DEF DispatchInv, Moves

\* A sender's step that leaves both buffers alone.
LEMMA SameBuffers ==
    ASSUME DispatchInv, NEW t \in Threads, NEW f, Moves(t, f),
           UNCHANGED <<encryptbuffer, dispatchBuffer>>,
           f.kind = Top(t).kind, f.id = Top(t).id,
           \/ Top(t).at = "lock" /\ f.at = "copy"
           \/ Top(t).at \in {"talk", "talking"} /\ f.at \in {"talking", "write"}
    PROVE  BuffersHold'
<1>1. Top(t)' = f /\ Message(f) = Message(Top(t))
  BY DEF Moves, Message
<1>2. ASSUME NEW u \in Threads, u # t, Top(u)'.kind # "assign"
      PROVE  /\ Top(u)'.at \in {"lock", "copy"} =>
                  encryptbuffer' = Message(Top(u))' \/ encryptbuffer'.kind = "assign"
             /\ Top(u)'.at \in {"talk", "talking", "write"} =>
                  dispatchBuffer' = Message(Top(u))' \/ dispatchBuffer'.kind = "assign"
  BY <1>2 DEF Moves, DispatchInv, BuffersHold, Still, Message
<1>3. f.kind # "assign" =>
        /\ f.at \in {"lock", "copy"} =>
             encryptbuffer' = Message(f) \/ encryptbuffer'.kind = "assign"
        /\ f.at \in {"talk", "talking", "write"} =>
             dispatchBuffer' = Message(f) \/ dispatchBuffer'.kind = "assign"
  BY <1>1 DEF DispatchInv, BuffersHold
<1> QED BY <1>1, <1>2, <1>3 DEF BuffersHold

LEMMA LockingInv ==
    ASSUME DispatchInv, NEW t \in Threads, LockToSend(t) \/ Talk(t) \/ Talked(t)
    PROVE  DispatchInv'
<1>1. PICK at \in {"copy", "talking", "write"} :
        /\ Goto(t, at) /\ UNCHANGED <<gil, encrypting, buffers, objects, ops>>
        /\ \/ Top(t).at = "lock" /\ at = "copy" /\ Lock(t)
           \/ Top(t).at = "talk" /\ at = "talking" /\ Lock(t)
           \/ Top(t).at = "talking" /\ at = "write" /\ Unlock
  BY DEF LockToSend, Talk, Talked, At
<1>2. Top(t).at \in Sends /\ at \in Sends /\ UNCHANGED nextObjId
  BY <1>1 DEF Sends, objects
<1>3. PICK f : /\ Moves(t, f) /\ f.at = at /\ f.kind = Top(t).kind
               /\ f.id = Top(t).id
  BY <1>1, <1>2, SendMoves DEF Moves
<1>4. Top(t) \in Frames /\ (Top(t).kind # "assign" => gil = t)
  BY <1>2, SenderTop
<1>5. LocksBalanced' /\ mutex' \in [owner : Threads, depth : Nat \ {0}] \cup {Free}
  <2>1. CASE Lock(t)
    <3>1. Held(f.at) = Held(Top(t).at) + 1
      BY <1>1, <1>3, <2>1, MutexTyped DEF Held, Lock, Unlock
    <3> QED BY <1>3, <2>1, <3>1, TakeLock
  <2>2. CASE Top(t).at = "talking" /\ at = "write" /\ Unlock
    <3>1. Held(Top(t).at) = Held(f.at) + 1
      BY <1>3, <2>2 DEF Held
    <3> QED BY <1>3, <2>2, <3>1, DropLock
  <2> QED BY <1>1, <2>1, <2>2
<1>6. RestTyped'
  BY <1>1, <1>3, <1>5 DEF DispatchInv, RestTyped, objects, buffers, Moves
<1>7. GilHeld'
  BY <1>1, <1>3, <1>4, KeepGil DEF NeedsGil
<1>8. BuffersHold'
  BY <1>1, <1>3, SameBuffers DEF buffers
<1>9. OwnFrames'
  BY <1>1 DEF DispatchInv, OwnFrames, buffers
<1> QED BY <1>3, <1>5, <1>6, <1>7, <1>8, <1>9 DEF DispatchInv, Moves

LEMMA CopyInv ==
    ASSUME DispatchInv, NEW t \in Threads, Copy(t)
    PROVE  DispatchInv'
<1>1. PICK at \in {"talk", "write"} : Goto(t, at)
  BY DEF Copy
<1>2. Top(t).at = "copy" /\ Top(t).at \in Sends /\ at \in Sends /\ UNCHANGED nextObjId
  BY DEF Copy, At, Sends
<1>3. PICK f : /\ Moves(t, f) /\ f.at = at /\ f.kind = Top(t).kind
               /\ f.id = Top(t).id
  BY <1>1, <1>2, SendMoves DEF Moves
<1>4. Top(t) \in Frames /\ (Top(t).kind # "assign" => gil = t)
      /\ (Top(t).kind = "assign" => Top(t).id \in Id)
  BY <1>2, SenderTop
<1>5. RestTyped'
  BY <1>3, <1>4 DEF Copy, DispatchInv, RestTyped, locks, Moves
<1>6. LocksBalanced'
  BY <1>2, <1>3, HoldLock DEF Copy, Held, locks
<1>7. GilHeld'
  BY <1>3, <1>4, KeepGil DEF NeedsGil, Copy, locks
<1>8. BuffersHold'
  <2>1. dispatchBuffer' = encryptbuffer /\ UNCHANGED encryptbuffer
    BY DEF Copy
  <2>2. ASSUME NEW u \in Threads, u # t, Top(u)'.kind # "assign"
        PROVE  /\ Top(u)'.at \in {"lock", "copy"} =>
                    encryptbuffer' = Message(Top(u))' \/ encryptbuffer'.kind = "assign"
               /\ Top(u)'.at \notin {"talk", "talking", "write"}
    <3>1. Held(Top(t).at) > 0
      BY <1>2 DEF Held
    <3>2. Held(Top(u).at) = 0
      BY <2>2, <3>1, WritersAlone
    <3>3. Top(u).at \notin {"talk", "talking", "write"}
      BY <3>2 DEF Held
    <3> QED BY <1>3, <2>1, <2>2, <3>3 DEF Moves, DispatchInv, BuffersHold, Still, Message
  <2>3. /\ Top(t)' = f /\ Message(f) = Message(Top(t))
        /\ f.kind # "assign" =>
             encryptbuffer = Message(Top(t)) \/ encryptbuffer.kind = "assign"
    BY <1>2, <1>3 DEF Moves, Message, DispatchInv, BuffersHold
  <2> QED BY <1>3, <2>1, <2>2, <2>3 DEF BuffersHold
<1>9. OwnFrames'
  BY DEF DispatchInv, OwnFrames, Copy
<1> QED BY <1>3, <1>5, <1>6, <1>7, <1>8, <1>9 DEF DispatchInv, Moves

LEMMA SentInv ==
    ASSUME DispatchInv, NEW t \in Threads, NoChannel(t) \/ Write(t)
    PROVE  DispatchInv'
<1>1. /\ Top(t).at \in {"copy", "write"} /\ Return(t) /\ Unlock /\ UNCHANGED <<objects, ops, gil>>
      /\ UNCHANGED <<encrypting, encryptbuffer, dispatchBuffer>>
  BY DEF NoChannel, Write, At, buffers
<1>2. Top(t).at \in Sends /\ UNCHANGED nextObjId
  BY <1>1 DEF Sends, objects
<1>3. /\ Top(t) \in Frames /\ Top(t).kind \notin {"io", "script", "callback"}
      /\ Top(t).kind # "assign" => gil = t
      /\ Beneath(Top(t)) = IF Top(t).kind = "assign" THEN {"select"}
                           ELSE {"python", "destroy"}
  BY <1>2, SenderTop
<1>4. PICK f : Moves(t, f) /\ f.at \in Beneath(Top(t))
  BY <1>1, <1>2, <1>3, ReturnMoves
<1>5. LocksBalanced' /\ mutex' \in [owner : Threads, depth : Nat \ {0}] \cup {Free}
  <2>1. Held(Top(t).at) = Held(f.at) + 1
    BY <1>1, <1>3, <1>4 DEF Held
  <2> QED BY <1>1, <1>4, <2>1, DropLock
<1>6. wire' \subseteq [sent : Content, written : Content] /\ OwnFrames'
  <2>1. CASE NoChannel(t)
    BY <2>1 DEF NoChannel, DispatchInv, RestTyped, OwnFrames, buffers
  <2>2. CASE Write(t)
    <3> DEFINE x == [sent |-> Message(Top(t)), written |-> dispatchBuffer]
    <3>1. wire' = wire \cup {x} /\ Top(t).at = "write"
      BY <2>2 DEF Write, At
    <3>2. x.sent = Message(Top(t)) /\ x.written = dispatchBuffer
          /\ x \in [sent : Content, written : Content]
      BY <1>3, MessageTyped DEF DispatchInv, RestTyped
    <3> HIDE DEF x
    <3>3. x.written = x.sent \/ "assign" \in {x.sent.kind, x.written.kind}
      BY <1>3, <3>1, <3>2, MessageTyped DEF DispatchInv, BuffersHold
    <3> QED BY <3>1, <3>2, <3>3 DEF DispatchInv, RestTyped, OwnFrames
  <2> QED BY <2>1, <2>2
<1>7. RestTyped'
  BY <1>1, <1>4, <1>5, <1>6 DEF DispatchInv, RestTyped, objects, Moves
<1>8. GilHeld'
  <2>1. NeedsGil(f) => gil' = t
    BY <1>1, <1>3, <1>4 DEF NeedsGil, Sends
  <2> QED BY <1>1, <1>4, <2>1, KeepGil
<1>9. BuffersHold'
  <2>1. f.at \notin {"lock", "copy", "talk", "talking", "write"}
    BY <1>3, <1>4
  <2> QED BY <1>1, <1>4, <2>1, KeepBuffers
<1> QED BY <1>4, <1>5, <1>6, <1>7, <1>8, <1>9 DEF DispatchInv, Moves

-----------------------------------------------------------------------------
(* The script.                                                             *)

LEMMA RunningTop ==
    ASSUME DispatchInv, NEW t \in Threads, At(t, "python")
    PROVE  /\ Top(t) \in Frames /\ Top(t).at = "python"
           /\ Top(t).kind \in {"callback", "script"}
           /\ Held(Top(t).at) = 0
  BY TopGood DEF At, GoodFrame, Held

LEMMA SendFrame ==
    ASSUME NEW kind \in {"call", "shutdown", "discover", "assign"}, NEW id \in 0..MaxId,
           kind = "assign" => id \in Id, NEW n
    PROVE  /\ Send(kind, id) \in Frames /\ Send(kind, id).at = "encrypt"
           /\ Send(kind, id).kind = kind /\ Send(kind, id).id = id
           /\ GoodFrame(Send(kind, id), n)
           /\ Beneath(Send(kind, id)) = IF kind = "assign" THEN {"select"}
                                        ELSE {"python", "destroy"}
<1>1. /\ Send(kind, id) \in Frames /\ Send(kind, id).at = "encrypt"
      /\ Send(kind, id).kind = kind /\ Send(kind, id).id = id
  BY NewFrame DEF Send, Labels, Kinds
<1> QED BY <1>1 DEF GoodFrame, Beneath, Sends

LEMMA CallbackFrame ==
    ASSUME NEW n
    PROVE  /\ Callback \in Frames /\ Callback.at = "python" /\ Callback.kind = "callback"
           /\ GoodFrame(Callback, n) /\ Beneath(Callback) = {"erase", "drop"}
<1>1. /\ Callback \in Frames /\ Callback.at = "python" /\ Callback.kind = "callback"
  BY DispatchAssumption, NewFrame DEF Callback, Labels, Kinds
<1> QED BY <1>1 DEF GoodFrame, Beneath, Sends

LEMMA OpTyped ==
    ASSUME DispatchInv, Op
    PROVE  ops' \in 0..MaxOps
  BY DispatchAssumption DEF DispatchInv, RestTyped, Op

LEMMA GilInv ==
    ASSUME DispatchInv, NEW t \in Threads, Yield(t) \/ Resume(t)
    PROVE  DispatchInv'
<1>1. At(t, "python") /\ UNCHANGED <<mutex, encrypting, buffers, objects, stack, ops>>
      /\ gil \in {t, None} /\ gil' \in Threads \cup {None}
  BY DEF Yield, Resume, Running
<1>2. Top(t).at = "python" /\ Held(Top(t).at) = 0 /\ ~NeedsGil(Top(t))
  BY <1>1, RunningTop DEF NeedsGil, Sends
<1>3. Moves(t, Top(t))
  BY <1>1 DEF Moves, DispatchInv, RestTyped, StacksGood, objects, Top, Still
<1>4. RestTyped'
  BY <1>1 DEF DispatchInv, RestTyped, buffers, objects
<1> QED BY <1>1, <1>2, <1>3, <1>4, PlainStep DEF DispatchInv, buffers

LEMMA CallInv ==
    ASSUME DispatchInv, NEW t \in Threads,
           Discover(t) \/ \E id \in Id : CallMethod(t, id)
    PROVE  DispatchInv'
<1>1. PICK kind \in {"call", "discover"}, id \in 0..MaxId :
        /\ Running(t) /\ Op /\ Call(t, "python", Send(kind, id))
        /\ UNCHANGED <<locks, buffers, objects>>
  BY DispatchAssumption DEF Discover, CallMethod, Id
<1>2. Top(t).at = "python" /\ Held(Top(t).at) = 0 /\ gil = t
  BY <1>1, RunningTop DEF Running
<1>3. /\ Send(kind, id) \in Frames /\ Send(kind, id).at = "encrypt"
      /\ Send(kind, id).kind = kind
      /\ GoodFrame(Send(kind, id), nextObjId) /\ Top(t).at \in Beneath(Send(kind, id))
  BY <1>2, SendFrame
<1>4. Moves(t, Send(kind, id))
  BY <1>1, <1>2, <1>3, CallMoves DEF objects
<1>5. RestTyped'
  BY <1>1, <1>4, OpTyped DEF DispatchInv, RestTyped, locks, buffers, objects, Moves
<1> QED BY <1>1, <1>2, <1>3, <1>4, <1>5, PlainStep DEF DispatchInv, buffers, locks

LEMMA FindIn ==
    ASSUME DispatchInv, NEW id, Found(id)
    PROVE  Find(id) \in DOMAIN modules /\ modules[Find(id)] = id /\ Find(id) \in Nat
  BY DEF Found, Find, DispatchInv, RestTyped

LEMMA LookedFrame ==
    ASSUME DispatchInv, NEW f \in Frames, NEW id, Found(id)
    PROVE  /\ Looked(f, id) \in Frames /\ Looked(f, id).at = f.at
           /\ Looked(f, id).kind = f.kind /\ Looked(f, id).id = f.id
           /\ Looked(f, id).pos = Find(id) /\ Looked(f, id).seen = ended
<1>1. Find(id) \in Nat /\ ended \in Nat
  BY FindIn DEF DispatchInv, RestTyped
<1> QED BY <1>1 DEF Looked, Frames

LEMMA DisconnectInv ==
    ASSUME DispatchInv, NEW t \in Threads, NEW id \in Id, Disconnect(t, id)
    PROVE  DispatchInv'
<1> DEFINE a == Send("shutdown", id)
           b == Looked(Frame("destroy", "disconnect", id), id)
<1>1. /\ Running(t) /\ Op /\ Found(id) /\ stack' = [stack EXCEPT ![t] = <<a, b>> \o @]
      /\ begun' = begun + 1 /\ UNCHANGED <<locks, buffers, modules, nextObjId,
           objCommMap, up, destroyed, ended>>
  BY DEF Disconnect
<1>2. Top(t).at = "python" /\ Held(Top(t).at) = 0 /\ gil = t /\ id \in 0..MaxId
  BY <1>1, RunningTop DEF Running, Id
<1>3. /\ a \in Frames /\ a.at = "encrypt" /\ a.kind = "shutdown"
      /\ GoodFrame(a, nextObjId) /\ "destroy" \in Beneath(a)
  BY <1>2, SendFrame
<1>4. b \in Frames /\ b.at = "destroy" /\ b.kind = "disconnect"
  <2> DEFINE f == Frame("destroy", "disconnect", id)
  <2>1. f \in Frames /\ f.at = "destroy" /\ f.kind = "disconnect"
    BY <1>2, NewFrame DEF Labels, Kinds
  <2> HIDE DEF f
  <2>2. Looked(f, id) \in Frames /\ Looked(f, id).at = f.at /\ Looked(f, id).kind = f.kind
    BY <1>1, <2>1, LookedFrame
  <2> QED BY <2>1, <2>2 DEF f
<1> HIDE DEF a, b
<1>5. GoodFrame(b, nextObjId) /\ Beneath(b) = {"python"}
  BY <1>4 DEF GoodFrame, Beneath, Sends
<1>6. GoodStack(t, <<b>> \o stack[t], nextObjId)
  BY <1>2, <1>4, <1>5, TopGood, PushGood DEF Top
<1>7. Head(<<b>> \o stack[t]) = b /\ <<b>> \o stack[t] \in Seq(Frames)
  BY <1>4, TopGood, ConsSeq DEF GoodStack
<1> DEFINE s == <<b>> \o stack[t]
<1>8. <<a, b>> \o stack[t] = <<a>> \o s
  <2>1. stack[t] \in Seq(Frames)
    BY TopGood DEF GoodStack
  <2>2. \A q \in Seq(Frames) : <<a, b>> \o q = <<a>> \o (<<b>> \o q)
    BY <1>3, <1>4, ConsTwo
  <2> QED BY <2>1, <2>2
<1>9. GoodStack(t, s, nextObjId) /\ Head(s) = b /\ s \in Seq(Frames)
  BY <1>6, <1>7
<1> HIDE DEF s
<1>10. GoodStack(t, <<a>> \o s, nextObjId) /\ Head(<<a>> \o s) = a
  BY <1>3, <1>4, <1>9, PushGood, ConsSeq
<1>11. Moves(t, a)
  BY <1>1, <1>8, <1>10, OneStack
<1>12. RestTyped'
  BY <1>1, <1>11, OpTyped DEF DispatchInv, RestTyped, locks, buffers, Moves
<1> QED BY <1>1, <1>2, <1>3, <1>11, <1>12, PlainStep DEF DispatchInv, buffers, locks

LEMMA CallbackReturnsInv ==
    ASSUME DispatchInv, NEW t \in Threads, CallbackReturns(t)
    PROVE  DispatchInv'
<1>1. At(t, "python") /\ gil = t /\ Top(t).kind = "callback" /\ Return(t)
      /\ UNCHANGED <<locks, buffers, objects, ops>>
  BY DEF CallbackReturns, Running
<1>2. Top(t).at = "python" /\ Held(Top(t).at) = 0
  BY <1>1, RunningTop
<1>3. Beneath(Top(t)) = {"erase", "drop"}
  BY <1>1, <1>2 DEF Beneath, Sends
<1>4. PICK f : Moves(t, f) /\ f.at \in {"erase", "drop"}
  BY <1>1, <1>3, ReturnMoves DEF objects
<1>5. RestTyped'
  BY <1>1, <1>4 DEF DispatchInv, RestTyped, locks, buffers, objects, Moves
<1> QED BY <1>1, <1>2, <1>4, <1>5, PlainStep DEF DispatchInv, buffers, locks

-----------------------------------------------------------------------------
(* modules_.                                                               *)

LEMMA HandlerTop ==
    ASSUME DispatchInv, NEW t \in Threads,
           Top(t).at \in {"touch", "lookup", "gil", "use", "drop", "destroy", "erase",
                         "push", "unmap", "close", "assign"}
    PROVE  /\ Top(t) \in Frames
           /\ Top(t).kind \notin {"io", "script", "callback", "assign"}
           /\ Held(Top(t).at) = 0
           /\ Top(t).kind = "declare" => nextObjId <= MaxId
                 /\ Top(t).at \in {"touch", "gil", "push", "assign"}
           /\ Top(t).kind = "disconnect" => Top(t).at \in {"destroy", "erase"}
           /\ Top(t).at \in {"push", "assign"} => Top(t).kind = "declare"
           /\ Top(t).at = "assign" => Top(t).id \in Id
           /\ Beneath(Top(t)) = IF Top(t).kind = "disconnect" THEN {"python"}
                                ELSE {"select"}
           /\ NeedsGil(Top(t)) <=> Top(t).at \in {"use", "drop", "destroy", "erase", "push"}
<1>1. Top(t) \in Frames /\ GoodFrame(Top(t), nextObjId)
  BY TopGood
<1> QED BY <1>1 DEF GoodFrame, Beneath, Sends, Held, NeedsGil

\* A handler goes on.
LEMMA HandleMoves ==
    ASSUME DispatchInv, NEW t \in Threads,
           Top(t).at \in {"touch", "lookup", "gil", "use", "drop", "destroy", "erase", "unmap"},
           NEW at \in {"lookup", "gil", "use", "drop", "destroy", "erase", "push", "unmap", "close"},
           Top(t).kind = "disconnect" => at \in {"destroy", "erase"},
           Top(t).kind = "declare" => at \in {"gil", "push"},
           at = "push" => Top(t).kind = "declare",
           nextObjId' = nextObjId, Goto(t, at)
    PROVE  \E f : Moves(t, f) /\ f.at = at
<1> DEFINE g == [Top(t) EXCEPT !.at = at]
<1>1. at \in Labels
  BY DEF Labels
<1>2. g.at = at /\ g.kind = Top(t).kind /\ g.id = Top(t).id
  BY <1>1, HandlerTop, FrameAt
<1> HIDE DEF g
<1>3. GoodFrame(g, nextObjId) /\ Beneath(g) = Beneath(Top(t))
  BY <1>2, HandlerTop DEF GoodFrame, Beneath, Sends
<1>4. Moves(t, g)
  BY <1>1, <1>3, HandlerTop, GotoMoves DEF g
<1> QED BY <1>2, <1>4

LEMMA DestroyInv ==
    ASSUME DispatchInv, NEW t \in Threads, Destroy(t)
    PROVE  DispatchInv'
<1>1. /\ Top(t).at = "destroy" /\ Call(t, "erase", Callback) /\ up' \in BOOLEAN
      /\ destroyed' = [destroyed EXCEPT ![Top(t).id] = @ + 1]
      /\ UNCHANGED <<locks, buffers, modules, nextObjId, objCommMap, begun, ended, ops>>
  BY DEF Destroy, At
<1>2. /\ Top(t) \in Frames /\ Top(t).kind \notin {"io", "script", "callback", "assign", "declare"}
      /\ Held(Top(t).at) = 0 /\ gil = t
  BY <1>1, HandlerTop DEF DispatchInv, GilHeld
<1> DEFINE g == [Top(t) EXCEPT !.at = "erase"]
<1>3. g.at = "erase" /\ g.kind = Top(t).kind /\ g.id = Top(t).id /\ "erase" \in Labels
  BY <1>2, FrameAt DEF Labels
<1> HIDE DEF g
<1>4. GoodFrame(g, nextObjId) /\ Beneath(g) = Beneath(Top(t))
  BY <1>1, <1>2, <1>3 DEF GoodFrame, Beneath, Sends
<1>5. Moves(t, Callback)
  BY <1>1, <1>2, <1>3, <1>4, CallbackFrame, CallAtMoves DEF g
<1>6. destroyed' \in [Id -> Nat]
  <2> DEFINE x == Top(t).id
  <2>1. destroyed \in [Id -> Nat] /\ destroyed' = [destroyed EXCEPT ![x] = destroyed[x] + 1]
    BY <1>1 DEF DispatchInv, RestTyped
  <2> HIDE DEF x
  <2>2. \A i \in Id : destroyed'[i] \in Nat
    BY <2>1
  <2>3. destroyed' = [i \in Id |-> destroyed'[i]]
    BY <2>1
  <2> QED BY <2>2, <2>3
<1>7. RestTyped'
  BY <1>1, <1>5, <1>6 DEF DispatchInv, RestTyped, locks, buffers, Moves
<1> QED BY <1>1, <1>2, <1>5, <1>7, CallbackFrame, PlainStep DEF DispatchInv, buffers, locks,
        NeedsGil

LEMMA WithoutAtSeq ==
    ASSUME NEW S, NEW q \in Seq(S), NEW i \in DOMAIN q
    PROVE  WithoutAt(q, i) \in Seq(S)
<1>1. Len(q) \in Nat \ {0} /\ DOMAIN q = 1..Len(q) /\ \A k \in 1..Len(q) : q[k] \in S
  OBVIOUS
<1>2. \A k \in 1..(Len(q) - 1) : k \in 1..Len(q) /\ k + 1 \in 1..Len(q)
  BY <1>1
<1>3. WithoutAt(q, i) \in [1..(Len(q) - 1) -> S]
  BY <1>1, <1>2 DEF WithoutAt
<1> QED BY <1>1, <1>3

LEMMA EraseTyped ==
    ASSUME DispatchInv, NEW f, Erase(f)
    PROVE  modules' \in Seq(Id) /\ up' \in BOOLEAN
<1>1. modules \in Seq(Id) /\ up \in BOOLEAN
  BY DEF DispatchInv, RestTyped
<1>2. CASE modules' = modules
  BY <1>1, <1>2 DEF Erase
<1>3. CASE modules' # modules
  <2> DEFINE i == IF f.pos \in DOMAIN modules THEN f.pos ELSE Len(modules)
  <2>1. modules' = WithoutAt(modules, i) /\ up' = up
    BY <1>3 DEF Erase
  <2>2. i \in DOMAIN modules
    BY <1>1, <1>3 DEF Erase
  <2> HIDE DEF i
  <2> QED BY <1>1, <2>1, <2>2, WithoutAtSeq
<1> QED BY <1>2, <1>3

LEMMA EraseByRefInv ==
    ASSUME DispatchInv, NEW t \in Threads, EraseByRef(t)
    PROVE  DispatchInv'
<1>1. /\ Top(t).at = "erase" /\ Top(t).kind = "disconnect" /\ Erase(Top(t))
      /\ ended' = ended + 1 /\ Return(t)
      /\ UNCHANGED <<locks, buffers, nextObjId, objCommMap, destroyed, begun, ops>>
  BY DEF EraseByRef, At
<1>2. /\ Top(t).kind \notin {"io", "script"} /\ Held(Top(t).at) = 0
      /\ Beneath(Top(t)) = {"python"}
  BY <1>1, HandlerTop
<1>3. PICK f : Moves(t, f) /\ f.at = "python"
  BY <1>1, <1>2, ReturnMoves
<1>4. RestTyped'
  BY <1>1, <1>3, EraseTyped DEF DispatchInv, RestTyped, locks, buffers, Moves
<1> QED BY <1>1, <1>2, <1>3, <1>4, PlainStep DEF DispatchInv, buffers, locks, NeedsGil, Sends

-----------------------------------------------------------------------------
(* The IO thread.                                                          *)

LEMMA IoThread == "io" \in Threads /\ "py" \in Threads
  BY DEF Threads

LEMMA ArrivalInv ==
    ASSUME DispatchInv, Arrival
    PROVE  DispatchInv'
<1>1. PICK kind \in {"declare", "message", "unknown", "shutdown", "closed"},
           at \in {"touch", "lookup"}, id \in 0..MaxId :
        /\ Begin(kind, id, at)
        /\ kind = "declare" => nextObjId <= MaxId /\ at = "touch"
  BY DispatchAssumption DEF Arrival, Declared, Received, Unknown, Left, Closed, Id
<1>2. /\ Top("io").at = "select" /\ Op /\ Call("io", "select", Frame(at, kind, id))
      /\ UNCHANGED <<locks, buffers, objects>>
  BY <1>1 DEF Begin, At
<1> DEFINE f == Frame(at, kind, id)
<1>3. f \in Frames /\ f.at = at /\ f.kind = kind
  BY NewFrame DEF Labels, Kinds
<1>4. Call("io", Top("io").at, f)
  BY <1>2
<1> HIDE DEF f
<1>5. GoodFrame(f, nextObjId) /\ Top("io").at \in Beneath(f)
  BY <1>1, <1>2, <1>3 DEF GoodFrame, Beneath, Sends
<1>6. Moves("io", f)
  BY <1>2, <1>3, <1>4, <1>5, IoThread, CallMoves DEF objects
<1>7. RestTyped'
  BY <1>2, <1>6, OpTyped DEF DispatchInv, RestTyped, locks, buffers, objects, Moves
<1> QED BY <1>2, <1>3, <1>6, <1>7, IoThread, PlainStep DEF DispatchInv, buffers, locks,
        NeedsGil, Held, Sends

LEMMA TouchInv ==
    ASSUME DispatchInv, Touch
    PROVE  DispatchInv'
<1>1. PICK at \in {"gil", "lookup"} :
        /\ Top("io").at = "touch" /\ Goto("io", at)
        /\ Top("io").kind = "declare" => at = "gil"
        /\ UNCHANGED <<locks, buffers, objects, ops>>
  BY DEF Touch, At
<1>2. Top("io").kind # "disconnect" /\ Held(Top("io").at) = 0
  BY <1>1, IoThread, HandlerTop
<1>3. PICK f : Moves("io", f) /\ f.at = at
  BY <1>1, <1>2, IoThread, HandleMoves DEF objects
<1>4. RestTyped'
  BY <1>1, <1>3 DEF DispatchInv, RestTyped, locks, buffers, objects, Moves
<1> QED BY <1>1, <1>2, <1>3, <1>4, IoThread, PlainStep DEF DispatchInv, buffers, locks,
        NeedsGil, Sends

LEMMA LookupInv ==
    ASSUME DispatchInv, Lookup
    PROVE  DispatchInv'
<1>1. Top("io").at = "lookup" /\ UNCHANGED <<locks, buffers, objects, ops>>
  BY DEF Lookup, At
<1>2. /\ Top("io") \in Frames
      /\ Top("io").kind \notin {"io", "script", "callback", "assign", "disconnect", "declare"}
      /\ Held(Top("io").at) = 0 /\ Beneath(Top("io")) = {"select"}
  BY <1>1, IoThread, HandlerTop
<1>3. \E f : Moves("io", f) /\ f.at \in {"gil", "unmap", "select"}
  <2>1. CASE Found(Top("io").id) /\ stack' = [stack EXCEPT !["io"] =
               <<Looked([Top("io") EXCEPT !.at = "gil"], Top("io").id)>> \o Tail(@)]
    <3> DEFINE g == [Top("io") EXCEPT !.at = "gil"]
               f == Looked(g, Top("io").id)
    <3>1. g \in Frames /\ g.at = "gil" /\ g.kind = Top("io").kind
      BY <1>2, FrameAt DEF Labels
    <3>2. f \in Frames /\ f.at = "gil" /\ f.kind = Top("io").kind
      BY <2>1, <3>1, LookedFrame
    <3>3. stack' = [stack EXCEPT !["io"] = <<f>> \o Tail(stack["io"])]
      BY <2>1
    <3> HIDE DEF f
    <3>4. GoodFrame(f, nextObjId) /\ Beneath(f) = Beneath(Top("io"))
      BY <1>2, <3>2 DEF GoodFrame, Beneath, Sends
    <3>5. Moves("io", f)
      BY <1>1, <1>2, <3>2, <3>3, <3>4, IoThread, ReplaceMoves DEF objects
    <3> QED BY <3>2, <3>5
  <2>2. CASE Goto("io", "unmap")
    BY <1>1, <1>2, <2>2, IoThread, HandleMoves DEF objects
  <2>3. CASE Return("io")
    <3>1. PICK f : Moves("io", f) /\ f.at = "select"
      BY <1>1, <1>2, <2>3, IoThread, ReturnMoves DEF objects
    <3> QED BY <3>1
  <2> QED BY <2>1, <2>2, <2>3 DEF Lookup
<1>4. PICK f : Moves("io", f) /\ f.at \in {"gil", "unmap", "select"}
  BY <1>3
<1>5. RestTyped'
  BY <1>1, <1>4 DEF DispatchInv, RestTyped, locks, buffers, objects, Moves
<1> QED BY <1>1, <1>2, <1>4, <1>5, IoThread, PlainStep DEF DispatchInv, buffers, locks,
        NeedsGil, Sends

LEMMA TakeGilInv ==
    ASSUME DispatchInv, TakeGil
    PROVE  DispatchInv'
<1>1. PICK at \in {"push", "use", "destroy"} :
        /\ Top("io").at = "gil" /\ Goto("io", at) /\ gil \in {"io", None} /\ gil' = "io"
        /\ Top("io").kind = "declare" <=> at = "push"
        /\ UNCHANGED <<mutex, encrypting, buffers, objects, ops>>
  BY DEF TakeGil, At
<1>2. Top("io").kind # "disconnect" /\ Held(Top("io").at) = 0
  BY <1>1, IoThread, HandlerTop
<1>3. PICK f : Moves("io", f) /\ f.at = at
  BY <1>1, <1>2, IoThread, HandleMoves DEF objects
<1>4. RestTyped'
  BY <1>1, <1>3, IoThread DEF DispatchInv, RestTyped, buffers, objects, Moves
<1> QED BY <1>1, <1>2, <1>3, <1>4, IoThread, PlainStep DEF DispatchInv, buffers

LEMMA UseInv ==
    ASSUME DispatchInv, Use
    PROVE  DispatchInv'
<1>1. /\ Top("io").at = "use" /\ up' \in BOOLEAN
      /\ Goto("io", "drop") \/ Call("io", "drop", Callback)
      /\ UNCHANGED <<locks, buffers, modules, nextObjId, objCommMap, destroyed, begun,
                     ended, ops>>
  <2>1. Found(Top("io").id) \in BOOLEAN
    BY DEF Found
  <2> HIDE DEF Found
  <2> QED BY <2>1 DEF Use, At
<1>2. /\ Top("io") \in Frames /\ gil = "io"
      /\ Top("io").kind \notin {"io", "script", "callback", "assign", "disconnect", "declare"}
      /\ Held(Top("io").at) = 0 /\ Beneath(Top("io")) = {"select"}
  BY <1>1, IoThread, HandlerTop DEF DispatchInv, GilHeld
<1>3. \E f : Moves("io", f) /\ f.at \in {"drop", "python"}
  <2>1. CASE Goto("io", "drop")
    BY <1>1, <1>2, <2>1, IoThread, HandleMoves
  <2>2. CASE Call("io", "drop", Callback)
    <3> DEFINE g == [Top("io") EXCEPT !.at = "drop"]
    <3>1. g.at = "drop" /\ g.kind = Top("io").kind /\ "drop" \in Labels
      BY <1>2, FrameAt DEF Labels
    <3> HIDE DEF g
    <3>2. GoodFrame(g, nextObjId) /\ Beneath(g) = Beneath(Top("io"))
      BY <1>2, <3>1 DEF GoodFrame, Beneath, Sends
    <3>3. Moves("io", Callback)
      BY <1>1, <1>2, <2>2, <3>1, <3>2, IoThread, CallbackFrame, CallAtMoves DEF g
    <3> QED BY <3>3, CallbackFrame
  <2> QED BY <1>1, <2>1, <2>2
<1>4. PICK f : Moves("io", f) /\ f.at \in {"drop", "python"}
  BY <1>3
<1>5. RestTyped'
  BY <1>1, <1>4 DEF DispatchInv, RestTyped, locks, buffers, Moves
<1> QED BY <1>1, <1>2, <1>4, <1>5, IoThread, PlainStep DEF DispatchInv, buffers, locks

LEMMA BackInv ==
    ASSUME DispatchInv, Drop \/ Ignore \/ Close
    PROVE  DispatchInv'
<1>1. /\ Top("io").at \in {"drop", "use", "close"} /\ Return("io")
      /\ gil' = gil \/ (gil' = None /\ Top("io").at = "drop")
      /\ UNCHANGED <<mutex, encrypting, buffers, modules, nextObjId, objCommMap, up,
                     destroyed, begun, ended, ops>>
  BY DEF Drop, Ignore, Release, Close, At, locks, objects
<1>2. /\ Top("io").kind \notin {"io", "script"} /\ Held(Top("io").at) = 0
      /\ Beneath(Top("io")) = {"select"} /\ (Top("io").at = "drop" => gil = "io")
  BY <1>1, IoThread, HandlerTop DEF DispatchInv, GilHeld
<1>3. PICK f : Moves("io", f) /\ f.at = "select"
  BY <1>1, <1>2, IoThread, ReturnMoves
<1>4. RestTyped'
  BY <1>1, <1>3 DEF DispatchInv, RestTyped, buffers, Moves
<1> QED BY <1>1, <1>2, <1>3, <1>4, IoThread, PlainStep DEF DispatchInv, buffers, NeedsGil,
        Sends

LEMMA UnmapInv ==
    ASSUME DispatchInv, Unmap
    PROVE  DispatchInv'
<1>1. /\ Top("io").at = "unmap" /\ Goto("io", "close") /\ objCommMap' \subseteq objCommMap
      /\ UNCHANGED <<locks, buffers, modules, nextObjId, up, destroyed, begun, ended, ops>>
  BY DEF Unmap, At
<1>2. Top("io").kind \notin {"disconnect", "declare"} /\ Held(Top("io").at) = 0
  BY <1>1, IoThread, HandlerTop
<1>3. PICK f : Moves("io", f) /\ f.at = "close"
  BY <1>1, <1>2, IoThread, HandleMoves
<1>4. RestTyped'
  BY <1>1, <1>3 DEF DispatchInv, RestTyped, locks, buffers, Moves
<1> QED BY <1>1, <1>2, <1>3, <1>4, IoThread, PlainStep DEF DispatchInv, buffers, locks,
        NeedsGil, Sends

LEMMA EraseByIDInv ==
    ASSUME DispatchInv, EraseByID
    PROVE  DispatchInv'
<1>1. /\ Top("io").at = "erase" /\ Top("io").kind # "disconnect" /\ Erase(Top("io"))
      /\ gil' \in {gil, None} /\ (Goto("io", "unmap") \/ Return("io"))
      /\ UNCHANGED <<mutex, encrypting, buffers, nextObjId, objCommMap, destroyed, begun,
                     ended, ops>>
  BY DEF EraseByID, Release, At
<1>2. /\ Top("io").kind \notin {"io", "script", "declare"} /\ Held(Top("io").at) = 0
      /\ Beneath(Top("io")) = {"select"} /\ gil = "io"
  BY <1>1, IoThread, HandlerTop DEF DispatchInv, GilHeld
<1>3. \E f : Moves("io", f) /\ f.at \in {"unmap", "select"}
  <2>1. CASE Goto("io", "unmap")
    BY <1>1, <1>2, <2>1, IoThread, HandleMoves
  <2>2. CASE Return("io")
    <3>1. PICK f : Moves("io", f) /\ f.at = "select"
      BY <1>1, <1>2, <2>2, IoThread, ReturnMoves
    <3> QED BY <3>1
  <2> QED BY <1>1, <2>1, <2>2
<1>4. PICK f : Moves("io", f) /\ f.at \in {"unmap", "select"}
  BY <1>3
<1>5. RestTyped'
  <2>1. modules' \in Seq(Id) /\ up' \in BOOLEAN
    BY <1>1, EraseTyped
  <2>2. gil' \in Threads \cup {None}
    BY <1>1 DEF DispatchInv, RestTyped
  <2> QED BY <1>1, <1>4, <2>1, <2>2 DEF DispatchInv, RestTyped, buffers, Moves
<1> QED BY <1>1, <1>2, <1>4, <1>5, IoThread, PlainStep DEF DispatchInv, buffers, NeedsGil,
        Sends

\* The vector may move: the iterators of the other thread change, and
\* nothing else about its frames does.
LEMMA IteratorsChange ==
    ASSUME NEW t \in Threads, NEW s, NEW n, GoodStack(t, s, n), NEW moved \in BOOLEAN
    PROVE  LET q == [i \in DOMAIN s |-> IF moved THEN [s[i] EXCEPT !.pos = 0] ELSE s[i]]
           IN GoodStack(t, q, n) /\ Alike(Head(q), Head(s))
<1> DEFINE g(i) == IF moved THEN [s[i] EXCEPT !.pos = 0] ELSE s[i]
           q == [i \in DOMAIN s |-> g(i)]
<1>1. s \in Seq(Frames) /\ DOMAIN s = 1..Len(s) /\ Len(s) \in Nat \ {0} /\ Head(s) = s[1]
  BY TailSeq DEF GoodStack
<1>2. \A i \in 1..Len(s) : g(i) \in Frames /\ Alike(g(i), s[i])
  <2> TAKE i \in 1..Len(s)
  <2>1. s[i] \in Frames
    BY <1>1
  <2>2. [s[i] EXCEPT !.pos = 0] \in Frames /\ Alike([s[i] EXCEPT !.pos = 0], s[i])
    BY <2>1 DEF Frames, Alike
  <2> QED BY <2>1, <2>2 DEF Alike
<1> HIDE DEF g
<1>3. q \in [1..Len(s) -> Frames] /\ \A i \in 1..Len(s) : q[i] = g(i)
  BY <1>1, <1>2
<1>4. q \in Seq(Frames) /\ Len(q) = Len(s) /\ q # <<>> /\ Head(q) = q[1]
  BY <1>1, <1>3
<1> HIDE DEF q
<1>5. \A i \in 1..Len(s) : GoodFrame(q[i], n) /\ Beneath(q[i]) = Beneath(s[i])
                            /\ Alike(q[i], s[i])
  <2> TAKE i \in 1..Len(s)
  <2>1. Alike(q[i], s[i]) /\ GoodFrame(s[i], n)
    BY <1>2, <1>3 DEF GoodStack
  <2> QED BY <2>1 DEF Alike, GoodFrame, Beneath, Sends
<1>6. GoodStack(t, q, n)
  <2>1. \A i \in 1..(Len(q) - 1) :
           q[i].kind \notin {"io", "script"} /\ q[i + 1].at \in Beneath(q[i])
    <3> TAKE i \in 1..(Len(q) - 1)
    <3>1. i \in 1..(Len(s) - 1) /\ i \in 1..Len(s) /\ i + 1 \in 1..Len(s)
      BY <1>1, <1>4
    <3>2. s[i].kind \notin {"io", "script"} /\ s[i + 1].at \in Beneath(s[i])
      BY <3>1 DEF GoodStack
    <3> QED BY <1>5, <3>1, <3>2 DEF Alike
  <2>2. q[Len(q)].kind = Root(t)
    BY <1>1, <1>4, <1>5 DEF GoodStack, Alike
  <2> QED BY <1>4, <1>5, <2>1, <2>2 DEF GoodStack
<1>7. Alike(Head(q), Head(s))
  BY <1>1, <1>4, <1>5
<1> QED BY <1>6, <1>7 DEF q, g

LEMMA PushBackInv ==
    ASSUME DispatchInv, PushBack
    PROVE  DispatchInv'
<1> DEFINE f == [Top("io") EXCEPT !.at = "assign", !.id = nextObjId]
           io == <<f>> \o Tail(stack["io"])
           py(moved) == [i \in DOMAIN stack["py"] |->
               IF moved THEN [stack["py"][i] EXCEPT !.pos = 0] ELSE stack["py"][i]]
<1>1. /\ Top("io").at = "push" /\ modules' = Append(modules, nextObjId)
      /\ gil' \in {gil, None}
      /\ UNCHANGED <<mutex, encrypting, buffers, nextObjId, objCommMap, up, destroyed,
                     begun, ended, ops>>
  BY DEF PushBack, Release, At
<1>2. PICK moved \in BOOLEAN : stack' = [io |-> io, py |-> py(moved)]
  BY DEF PushBack
<1>3. /\ Top("io") \in Frames /\ Top("io").kind = "declare" /\ Held(Top("io").at) = 0
      /\ nextObjId <= MaxId /\ Beneath(Top("io")) = {"select"} /\ gil = "io"
  BY <1>1, IoThread, HandlerTop DEF DispatchInv, GilHeld
<1>4. nextObjId \in Id /\ modules \in Seq(Id)
  BY <1>3, DispatchAssumption DEF DispatchInv, RestTyped, Id
<1>5. f \in Frames /\ f.at = "assign" /\ f.kind = "declare" /\ f.id = nextObjId
  <2>1. "assign" \in Labels /\ nextObjId \in 0..MaxId
    BY <1>4 DEF Labels, Id
  <2>2. \A h \in Frames : LET k == [h EXCEPT !.at = "assign", !.id = nextObjId]
                          IN  k \in Frames /\ k.at = "assign" /\ k.kind = h.kind
                              /\ k.id = nextObjId
    BY <2>1 DEF Frames
  <2>3. Top("io") \in Frames /\ Top("io").kind = "declare"
    BY <1>3
  <2> QED BY <2>2, <2>3
<1>6. GoodStack("io", io, nextObjId) /\ Head(io) = f
  <2> HIDE DEF f
  <2>1. GoodFrame(f, nextObjId) /\ Beneath(f) = Beneath(Top("io"))
    BY <1>3, <1>4, <1>5 DEF GoodFrame, Beneath, Sends
  <2>2. GoodStack("io", io, nextObjId)
    BY <1>3, <1>5, <2>1, IoThread, TopGood, ReplaceGood DEF Top
  <2>3. Tail(stack["io"]) \in Seq(Frames)
    BY IoThread, TopGood, TailSeq DEF GoodStack
  <2> QED BY <1>5, <2>2, <2>3, ConsSeq
<1>7. GoodStack("py", py(moved), nextObjId) /\ Alike(Head(py(moved)), Head(stack["py"]))
  BY IoThread, TopGood, IteratorsChange
<1> HIDE DEF io, py, f
<1>8. Moves("io", f)
  <2>1. stack'["io"] = io /\ stack'["py"] = py(moved)
    BY <1>2
  <2>2. stack' = [u \in Threads |-> stack'[u]]
    BY <1>2 DEF Threads
  <2>3. StacksGood'
    BY <1>1, <1>6, <1>7, <2>1 DEF StacksGood, Threads
  <2>4. Top("io")' = f /\ Still("py")
    BY <1>6, <1>7, <2>1 DEF Top, Still, Alike
  <2> QED BY <2>2, <2>3, <2>4 DEF Moves, Threads
<1>9. RestTyped'
  <2>1. modules' \in Seq(Id)
    BY <1>1, <1>4
  <2> QED BY <1>1, <1>8, <2>1 DEF DispatchInv, RestTyped, buffers, Moves
<1> QED BY <1>1, <1>3, <1>5, <1>8, <1>9, IoThread, PlainStep DEF DispatchInv, buffers,
        NeedsGil, Sends

\* Only the IO thread has frames that depend on nextObjId.
LEMMA PyIgnoresIds ==
    ASSUME NEW s, NEW n, NEW m, GoodStack("py", s, n)
    PROVE  GoodStack("py", s, m)
<1>1. ASSUME NEW i \in 1..Len(s), s[i].kind = "declare"
      PROVE  FALSE
  <2>1. s[i].at \in {"touch", "gil", "push", "assign"} /\ Len(s) \in Nat
    BY <1>1 DEF GoodStack, GoodFrame
  <2>2. i # Len(s) /\ Beneath(s[i]) = {"select"}
    BY <1>1, <2>1 DEF GoodStack, Root, Beneath, Sends
  <2>3. i \in 1..(Len(s) - 1) /\ i + 1 \in 1..Len(s)
    BY <2>1, <2>2
  <2>4. s[i + 1].at = "select"
    BY <2>2, <2>3 DEF GoodStack
  <2>5. s[i + 1].kind = "io"
    BY <2>3, <2>4 DEF GoodStack, GoodFrame
  <2>6. i + 1 \notin 1..(Len(s) - 1)
    BY <2>5 DEF GoodStack
  <2>7. i + 1 = Len(s)
    BY <2>1, <2>3, <2>6
  <2> QED BY <2>5, <2>7 DEF GoodStack, Root
<1>2. \A i \in 1..Len(s) : GoodFrame(s[i], m)
  BY <1>1 DEF GoodStack, GoodFrame
<1> QED BY <1>2 DEF GoodStack

LEMMA AssignInv ==
    ASSUME DispatchInv, Assign
    PROVE  DispatchInv'
<1> DEFINE f == Send("assign", Top("io").id)
           s == Tail(stack["io"])
           n == nextObjId + 1
<1>1. /\ Top("io").at = "assign" /\ nextObjId' = n
      /\ stack' = [stack EXCEPT !["io"] = <<f>> \o s]
      /\ UNCHANGED <<locks, buffers, modules, objCommMap, up, destroyed, begun, ended, ops>>
  BY DEF Assign, At
<1>2. /\ Top("io") \in Frames /\ Top("io").kind = "declare" /\ Held(Top("io").at) = 0
      /\ nextObjId <= MaxId /\ Beneath(Top("io")) = {"select"} /\ Top("io").id \in Id
  BY <1>1, IoThread, HandlerTop
<1>3. Top("io").id \in 0..MaxId /\ n \in 1..(MaxId + 1)
  <2>1. nextObjId \in 1..(MaxId + 1)
    BY DEF DispatchInv, RestTyped
  <2>2. n \in 1..(MaxId + 1)
    BY <1>2, <2>1, DispatchAssumption
  <2> QED BY <1>2, <2>2 DEF Id
<1>4. /\ f \in Frames /\ f.at = "encrypt" /\ f.kind = "assign" /\ GoodFrame(f, n)
      /\ Beneath(f) = {"select"}
  BY <1>2, <1>3, SendFrame
<1>5. GoodStack("io", s, nextObjId) /\ Head(s).at = "select"
  BY <1>2, IoThread, TopGood, PopGood DEF Top
<1> HIDE DEF f, s, n
<1>6. Head(s).kind = "io" /\ Len(s) = 1 /\ Head(s) = s[1]
  <2>1. /\ Head(s) = s[1] /\ GoodFrame(Head(s), nextObjId)
        /\ \/ Len(s) > 1 /\ Head(s).kind \notin {"io", "script"}
           \/ Len(s) = 1
    BY <1>5, IoThread, RootOnly
  <2> QED BY <1>5, <2>1 DEF GoodFrame
<1>7. GoodStack("io", s, n)
  <2>1. GoodFrame(s[1], n)
    BY <1>5, <1>6 DEF GoodFrame, Sends
  <2> QED BY <1>5, <1>6, <2>1 DEF GoodStack
<1>8. GoodStack("io", <<f>> \o s, n) /\ Head(<<f>> \o s) = f
  <2>1. s \in Seq(Frames)
    BY <1>7 DEF GoodStack
  <2> QED BY <1>4, <1>5, <1>7, <2>1, IoThread, PushGood, ConsSeq
<1>9. GoodStack("py", stack["py"], n)
  BY IoThread, TopGood, PyIgnoresIds
<1>10. Moves("io", f)
  <2>1. /\ stack' = [u \in Threads |-> stack'[u]]
        /\ stack'["io"] = <<f>> \o s /\ stack'["py"] = stack["py"]
    BY <1>1 DEF DispatchInv, RestTyped, Threads
  <2>2. StacksGood'
    BY <1>1, <1>8, <1>9, <2>1 DEF StacksGood, Threads
  <2>3. Top("io")' = f /\ Still("py")
    BY <1>8, <2>1 DEF Top, Still
  <2> QED BY <2>1, <2>2, <2>3 DEF Moves, Threads
<1>11. RestTyped'
  BY <1>1, <1>3, <1>10 DEF DispatchInv, RestTyped, locks, buffers, Moves, n
<1> QED BY <1>1, <1>2, <1>4, <1>10, <1>11, IoThread, PlainStep DEF DispatchInv, buffers,
        locks, NeedsGil, Sends

-----------------------------------------------------------------------------
LEMMA DispatchInvInit == Init => DispatchInv
<1> SUFFICES ASSUME Init PROVE DispatchInv
  OBVIOUS
<1>1. /\ Frame("select", "io", 0) \in Frames /\ Frame("select", "io", 0).at = "select"
      /\ Frame("select", "io", 0).kind = "io"
  BY DispatchAssumption, NewFrame DEF Labels, Kinds
<1>2. /\ Frame("python", "script", 0) \in Frames /\ Frame("python", "script", 0).at = "python"
      /\ Frame("python", "script", 0).kind = "script"
  BY DispatchAssumption, NewFrame DEF Labels, Kinds
<1>3. /\ stack = [t \in Threads |-> stack[t]] /\ stack["io"] = <<Frame("select", "io", 0)>>
      /\ stack["py"] = <<Frame("python", "script", 0)>>
  BY DEF Init, Threads
<1> DEFINE f == Frame("select", "io", 0)
           g == Frame("python", "script", 0)
<1> HIDE DEF f, g
<1>4. GoodFrame(f, nextObjId) /\ GoodFrame(g, nextObjId)
  BY <1>1, <1>2 DEF GoodFrame, Sends, f, g
<1>5. GoodStack("io", <<f>>, nextObjId) /\ GoodStack("py", <<g>>, nextObjId)
  BY <1>1, <1>2, <1>4 DEF GoodStack, Root, f, g
<1>6. StacksGood
  BY <1>3, <1>5 DEF StacksGood, Threads, f, g
<1>7. Top("io").at = "select" /\ Top("py").at = "python"
  BY <1>1, <1>2, <1>3 DEF Top
<1>8. LocksBalanced /\ GilHeld /\ BuffersHold /\ OwnFrames
  BY <1>7, DispatchAssumption DEF LocksBalanced, GilHeld, BuffersHold, OwnFrames, Init,
     Held, NeedsGil, Sends, Free, Threads
<1>9. RestTyped
  <2>1. modules \in Seq(Id) /\ nextObjId \in 1..(MaxId + 1) /\ objCommMap \subseteq Id
    BY DispatchAssumption DEF Init, Id
  <2>2. encryptbuffer \in Content /\ dispatchBuffer \in Content
    BY DispatchAssumption DEF Init, Content, Kinds
  <2> QED BY <1>3, <2>1, <2>2, DispatchAssumption DEF RestTyped, Init, Threads
<1> QED BY <1>6, <1>8, <1>9 DEF DispatchInv

LEMMA DispatchInvNext == DispatchInv /\ [Next]_vars => DispatchInv'
<1> SUFFICES ASSUME DispatchInv, [Next]_vars PROVE DispatchInv'
  OBVIOUS
<1>1. CASE UNCHANGED vars
  BY <1>1 DEF vars, locks, buffers, objects, DispatchInv, RestTyped, StacksGood,
     LocksBalanced, GilHeld, BuffersHold, OwnFrames, Top
<1>2. ASSUME NEW t \in Threads, Get(t) \/ Yield(t) PROVE DispatchInv'
  BY <1>2, GilInv, TakeGilInv DEF Get
<1>3. ASSUME NEW t \in Threads, Sending(t) PROVE DispatchInv'
  BY <1>3, BeginEncryptInv, EndEncryptInv, LockingInv, CopyInv, SentInv DEF Sending
<1>4. CASE Handling
  BY <1>4, TouchInv, LookupInv, UseInv, BackInv, PushBackInv, AssignInv, UnmapInv,
     EraseByIDInv DEF Handling
<1>5. ASSUME NEW t \in Threads, Run(t) PROVE DispatchInv'
  BY <1>3, <1>4, <1>5, DestroyInv, EraseByRefInv, CallbackReturnsInv DEF Run
<1>6. ASSUME NEW t \in Threads, Scripting(t) PROVE DispatchInv'
  BY <1>6, CallInv, DisconnectInv DEF Scripting
<1>7. CASE Arrival
  BY <1>7, ArrivalInv
<1> QED BY <1>1, <1>2, <1>5, <1>6, <1>7 DEF Next

KeptTyped == kept \in BOOLEAN

\* Only a message of unknown type has the IO thread keep the GIL.
LEMMA KeptStep == [Next]_vars => kept' = kept \/ kept' = TRUE
<1> SUFFICES ASSUME [Next]_vars PROVE kept' = kept \/ kept' = TRUE
  OBVIOUS
<1>1. CASE UNCHANGED vars
  BY <1>1 DEF vars, objects
<1>2. ASSUME NEW t \in Threads, Get(t) \/ Yield(t) PROVE kept' = kept
  BY <1>2 DEF Get, Resume, TakeGil, Yield, objects
<1>3. ASSUME NEW t \in Threads, Sending(t) PROVE kept' = kept
  BY <1>3 DEF Sending, BeginEncrypt, EndEncrypt, LockToSend, Copy, NoChannel, Talk,
     Talked, Write, objects
<1>4. CASE Handling
  <2>1. CASE Ignore
    BY <2>1 DEF Ignore
  <2>2. CASE Touch \/ Lookup \/ Use \/ Drop \/ PushBack
    BY <2>2 DEF Touch, Lookup, Use, Drop, PushBack, objects
  <2>3. CASE Assign \/ Unmap \/ Close \/ EraseByID
    BY <2>3 DEF Assign, Unmap, Close, EraseByID, objects
  <2> QED BY <1>4, <2>1, <2>2, <2>3 DEF Handling
<1>5. ASSUME NEW t \in Threads, Destroy(t) \/ EraseByRef(t) \/ CallbackReturns(t)
      PROVE kept' = kept
  BY <1>5 DEF Destroy, EraseByRef, CallbackReturns, objects
<1>6. ASSUME NEW t \in Threads, Scripting(t) PROVE kept' = kept
  BY <1>6 DEF Scripting, Discover, CallMethod, Disconnect, objects
<1>7. CASE Arrival
  BY <1>7 DEF Arrival, Declared, Received, Unknown, Left, Closed, Begin, objects
<1> QED BY <1>1, <1>2, <1>3, <1>4, <1>5, <1>6, <1>7 DEF Next, Run

\* Every variable keeps its type; in particular every thread always has a
\* procedure to go on with, and no object gets an id above the limit.
THEOREM DispatchTypeCorrect == Spec => []TypeOK
<1>1. Spec => []DispatchInv
  BY DispatchInvInit, DispatchInvNext, PTL DEF Spec
<1>2. Spec => []KeptTyped
  <2>1. Init => KeptTyped
    BY DEF Init, KeptTyped
  <2>2. KeptTyped /\ [Next]_vars => KeptTyped'
    BY KeptStep DEF KeptTyped
  <2> QED BY <2>1, <2>2, PTL DEF Spec
<1>3. DispatchInv /\ KeptTyped => TypeOK
  <2> SUFFICES ASSUME DispatchInv, KeptTyped PROVE TypeOK
    OBVIOUS
  <2>1. \A t \in Threads : stack[t] \in Seq(Frames) /\ stack[t] # <<>>
    BY DEF DispatchInv, StacksGood, GoodStack
  <2> QED BY <2>1 DEF DispatchInv, RestTyped, KeptTyped, TypeOK
<1> QED BY <1>1, <1>2, <1>3, PTL

\* g_mutex is given back as often as it was taken, and no thread runs Python
\* code or waits for the GIL with it.
THEOREM MutexBalanced == Spec => []LocksBalanced
<1>1. Spec => []DispatchInv
  BY DispatchInvInit, DispatchInvNext, PTL DEF Spec
<1>2. DispatchInv => LocksBalanced
  BY DEF DispatchInv
<1> QED BY <1>1, <1>2, PTL

\* A frame that is written is the one that was sent, unless an id is being
\* assigned: the GIL protects the unlocked buffer of encryptMessage.
THEOREM FramesAreOwn == Spec => []OwnFrames
<1>1. Spec => []DispatchInv
  BY DispatchInvInit, DispatchInvNext, PTL DEF Spec
<1>2. DispatchInv => OwnFrames
  BY DEF DispatchInv
<1> QED BY <1>1, <1>2, PTL

-----------------------------------------------------------------------------
(* modules_, which two threads and the callbacks share: what the IO thread   *)
(* has found there without the GIL, and what becomes of it.                  *)


\* Where an iterator of modules_ is in use.
Keeps == {"gil", "use", "drop", "destroy", "erase"}

Points(f, mods) == f.pos \in DOMAIN mods /\ mods[f.pos] = f.id

\* e is the number of disconnections so far.
SoundFrame(f, mods, e) ==
    f.at \in Keeps /\ f.kind # "declare" =>
        f.seen <= e /\ (f.seen = e => Points(f, mods))

SoundStack(s, mods, e) == \A i \in 1..Len(s) : SoundFrame(s[i], mods, e)

ObjectsInv == DispatchInv /\ SoundStack(stack["io"], modules, ended)

-----------------------------------------------------------------------------
(* Stacks.                                                                 *)

LEMMA SoundCons ==
    ASSUME NEW mods, NEW e, NEW s \in Seq(Frames), SoundStack(s, mods, e),
           NEW f \in Frames, SoundFrame(f, mods, e)
    PROVE  <<f>> \o s \in Seq(Frames) /\ SoundStack(<<f>> \o s, mods, e)
<1> DEFINE r == <<f>> \o s
<1>1. /\ r \in Seq(Frames) /\ Len(r) = Len(s) + 1 /\ r[1] = f /\ Len(s) \in Nat
      /\ \A i \in 1..Len(s) : r[i + 1] = s[i]
  BY ConsSeq
<1> HIDE DEF r
<1>2. ASSUME NEW i \in 1..Len(r) PROVE SoundFrame(r[i], mods, e)
  <2>1. CASE i = 1
    BY <1>1, <2>1
  <2>2. CASE i # 1
    <3>1. i - 1 \in 1..Len(s) /\ (i - 1) + 1 = i
      BY <1>1, <2>2
    <3>2. r[i] = s[i - 1]
      BY <1>1, <3>1
    <3> QED BY <3>1, <3>2 DEF SoundStack
  <2> QED BY <2>1, <2>2
<1>3. r \in Seq(Frames) /\ SoundStack(r, mods, e)
  BY <1>1, <1>2 DEF SoundStack
<1> QED BY <1>3 DEF r

LEMMA SoundTail ==
    ASSUME NEW mods, NEW e, NEW s \in Seq(Frames), s # <<>>, SoundStack(s, mods, e)
    PROVE  /\ Tail(s) \in Seq(Frames) /\ SoundStack(Tail(s), mods, e)
           /\ Head(s) \in Frames /\ SoundFrame(Head(s), mods, e)
<1>1. /\ Tail(s) \in Seq(Frames) /\ Len(Tail(s)) = Len(s) - 1 /\ Len(s) \in Nat \ {0}
      /\ Head(s) = s[1] /\ Head(s) \in Frames
      /\ \A i \in 1..(Len(s) - 1) : Tail(s)[i] = s[i + 1]
  BY TailSeq
<1>2. \A i \in 1..(Len(s) - 1) : i + 1 \in 1..Len(s)
  BY <1>1
<1>3. 1 \in 1..Len(s)
  BY <1>1
<1> QED BY <1>1, <1>2, <1>3 DEF SoundStack

\* A disconnection makes everything that was found before it void.
LEMMA SoundLater ==
    ASSUME NEW s \in Seq(Frames), NEW mods, NEW mods2, NEW e \in Nat,
           SoundStack(s, mods, e)
    PROVE  SoundStack(s, mods2, e + 1)
<1> SUFFICES ASSUME NEW i \in 1..Len(s) PROVE SoundFrame(s[i], mods2, e + 1)
  BY DEF SoundStack
<1>1. s[i] \in Frames /\ SoundFrame(s[i], mods, e)
  BY DEF SoundStack
<1>2. s[i].seen \in Nat
  BY <1>1 DEF Frames
<1> QED BY <1>1, <1>2 DEF SoundFrame

\* A handler that reads the connections works on the root of the IO thread.
LEMMA OnlyRootBeneath ==
    ASSUME NEW t \in Threads, NEW s, NEW n, GoodStack(t, s, n), Len(s) > 1,
           Beneath(Head(s)) = {"select"}
    PROVE  \A i \in 1..Len(Tail(s)) : Tail(s)[i].at = "select"
<1>1. /\ Len(Tail(s)) = Len(s) - 1 /\ Len(s) \in Nat /\ Head(s) = s[1]
      /\ \A i \in 1..(Len(s) - 1) : Tail(s)[i] = s[i + 1]
  BY TailSeq DEF GoodStack
<1>2. 1 \in 1..(Len(s) - 1) /\ 2 \in 1..Len(s) /\ 1 + 1 = 2
  BY <1>1
<1>3. s[2].at = "select"
  BY <1>1, <1>2 DEF GoodStack
<1>4. s[2].kind = "io"
  BY <1>2, <1>3 DEF GoodStack, GoodFrame
<1>5. 2 \notin 1..(Len(s) - 1)
  BY <1>4 DEF GoodStack
<1>6. Len(s) = 2
  <2> DEFINE k == Len(s)
  <2>1. k \in Nat /\ 2 \in 1..k /\ 2 \notin 1..(k - 1)
    BY <1>1, <1>2, <1>5
  <2> HIDE DEF k
  <2>2. k = 2
    BY <2>1
  <2> QED BY <2>2 DEF k
<1>7. ASSUME NEW i \in 1..Len(Tail(s)) PROVE Tail(s)[i].at = "select"
  <2>1. i = 1
    <3>1. Len(Tail(s)) = 1
      BY <1>1, <1>6
    <3>2. i \in 1..1
      BY <3>1
    <3> QED BY <3>2
  <2>2. Tail(s)[1] = s[1 + 1]
    BY <1>1, <1>2
  <2> QED BY <1>2, <1>3, <2>1, <2>2
<1> QED BY <1>7

\* So none of its frames but the top one has an iterator.
LEMMA RootSound ==
    ASSUME DispatchInv, Top("io").kind \notin {"io", "script"},
           Beneath(Top("io")) = {"select"}, NEW mods, NEW e
    PROVE  Tail(stack["io"]) \in Seq(Frames) /\ SoundStack(Tail(stack["io"]), mods, e)
<1>1. GoodStack("io", stack["io"], nextObjId) /\ Len(stack["io"]) > 1
  BY IoThread, TopGood
<1>2. Tail(stack["io"]) \in Seq(Frames)
  BY <1>1, TailSeq DEF GoodStack
<1>3. \A i \in 1..Len(Tail(stack["io"])) : Tail(stack["io"])[i].at = "select"
  BY <1>1, IoThread, OnlyRootBeneath DEF Top
<1> QED BY <1>2, <1>3 DEF SoundStack, SoundFrame, Keeps

LEMMA IoStack ==
    ASSUME ObjectsInv
    PROVE  /\ stack["io"] \in Seq(Frames) /\ stack["io"] # <<>>
           /\ Top("io") \in Frames /\ SoundFrame(Top("io"), modules, ended)
           /\ Tail(stack["io"]) \in Seq(Frames)
           /\ SoundStack(Tail(stack["io"]), modules, ended)
           /\ ended \in Nat /\ stack = [t \in Threads |-> stack[t]]
<1>1. stack["io"] \in Seq(Frames) /\ stack["io"] # <<>>
  BY IoThread, TopGood DEF ObjectsInv, GoodStack
<1>2. SoundStack(stack["io"], modules, ended) /\ ended \in Nat
      /\ stack = [t \in Threads |-> stack[t]]
  BY DEF ObjectsInv, DispatchInv, RestTyped
<1> QED BY <1>1, <1>2, SoundTail DEF Top

\* The frame on top goes on: it takes no new iterator, or keeps its own.
LEMMA MovedSound ==
    ASSUME ObjectsInv, NEW at \in Labels,
           at \notin Keeps \/ Top("io").at \in Keeps \/ Top("io").kind = "declare"
    PROVE  Moved("io", at) \in Seq(Frames) /\ SoundStack(Moved("io", at), modules, ended)
<1> DEFINE g == [Top("io") EXCEPT !.at = at]
<1>1. /\ g \in Frames /\ g.at = at /\ g.kind = Top("io").kind /\ g.id = Top("io").id
      /\ g.pos = Top("io").pos /\ g.seen = Top("io").seen
  BY IoStack, FrameAt
<1> HIDE DEF g
<1>2. SoundFrame(g, modules, ended)
  BY <1>1, IoStack DEF SoundFrame, Points
<1> QED BY <1>1, <1>2, IoStack, SoundCons DEF Moved, g

LEMMA GotoSound ==
    ASSUME ObjectsInv, NEW at \in Labels, Goto("io", at), UNCHANGED <<modules, ended>>,
           at \notin Keeps \/ Top("io").at \in Keeps \/ Top("io").kind = "declare"
    PROVE  SoundStack(stack["io"], modules, ended)'
<1>1. stack'["io"] = Moved("io", at)
  BY IoStack, IoThread DEF Goto
<1> QED BY <1>1, MovedSound

LEMMA CallSound ==
    ASSUME ObjectsInv, NEW at \in Labels, NEW f \in Frames, f.at \notin Keeps,
           Call("io", at, f), UNCHANGED <<modules, ended>>,
           at \notin Keeps \/ Top("io").at \in Keeps \/ Top("io").kind = "declare"
    PROVE  SoundStack(stack["io"], modules, ended)'
<1>1. stack'["io"] = <<f>> \o Moved("io", at)
  BY IoStack, IoThread DEF Call
<1>2. SoundFrame(f, modules, ended)
  BY DEF SoundFrame
<1> QED BY <1>1, <1>2, MovedSound, SoundCons

LEMMA ReturnSound ==
    ASSUME ObjectsInv, Return("io"), UNCHANGED <<modules, ended>>
    PROVE  SoundStack(stack["io"], modules, ended)'
<1>1. stack'["io"] = Tail(stack["io"])
  BY IoStack, IoThread DEF Return
<1> QED BY <1>1, IoStack

\* The other thread, which does not touch the stack of the IO thread.
LEMMA OtherSound ==
    ASSUME ObjectsInv, stack'["io"] = stack["io"], UNCHANGED <<modules, ended>>
    PROVE  SoundStack(stack["io"], modules, ended)'
  BY DEF ObjectsInv

-----------------------------------------------------------------------------
LEMMA SendingSound ==
    ASSUME ObjectsInv, NEW t \in Threads, Sending(t)
    PROVE  SoundStack(stack["io"], modules, ended)'
<1>1. UNCHANGED <<modules, ended>>
      /\ \/ Return(t)
         \/ \E at \in {"encrypting", "lock", "copy", "talk", "talking", "write"} : Goto(t, at)
  BY DEF Sending, BeginEncrypt, EndEncrypt, LockToSend, Copy, NoChannel, Talk, Talked,
     Write, objects
<1>2. CASE t = "io"
  BY <1>1, <1>2, ReturnSound, GotoSound DEF Keeps, Labels
<1>3. CASE t # "io"
  <2>1. stack'["io"] = stack["io"]
    BY <1>1, <1>3, IoStack, IoThread DEF Return, Goto
  <2> QED BY <1>1, <2>1, OtherSound
<1> QED BY <1>2, <1>3

LEMMA DestroySound ==
    ASSUME ObjectsInv, NEW t \in Threads, Destroy(t)
    PROVE  SoundStack(stack["io"], modules, ended)'
<1>1. Top(t).at = "destroy" /\ Call(t, "erase", Callback) /\ UNCHANGED <<modules, ended>>
  BY DEF Destroy, At
<1>2. CASE t = "io"
  BY <1>1, <1>2, CallbackFrame, CallSound DEF Keeps, Labels
<1>3. CASE t # "io"
  <2>1. stack'["io"] = stack["io"]
    BY <1>1, <1>3, IoStack, IoThread DEF Call
  <2> QED BY <1>1, <2>1, OtherSound
<1> QED BY <1>2, <1>3

LEMMA EraseByRefSound ==
    ASSUME ObjectsInv, NEW t \in Threads, EraseByRef(t)
    PROVE  SoundStack(stack["io"], modules, ended)'
<1>1. ended' = ended + 1 /\ Return(t)
  BY DEF EraseByRef
<1>2. stack'["io"] = Tail(stack["io"]) \/ stack'["io"] = stack["io"]
  BY <1>1, IoStack, IoThread DEF Return
<1>3. SoundStack(stack["io"], modules, ended)
  BY DEF ObjectsInv
<1> QED BY <1>1, <1>2, <1>3, IoStack, SoundLater

LEMMA PythonSound ==
    ASSUME ObjectsInv, NEW t \in Threads,
           \/ Yield(t) \/ Resume(t) \/ CallbackReturns(t) \/ Discover(t)
           \/ \E id \in Id : CallMethod(t, id)
    PROVE  SoundStack(stack["io"], modules, ended)'
<1>1. UNCHANGED <<modules, ended>>
      /\ \/ stack' = stack \/ Return(t)
         \/ \E kind \in {"call", "discover"}, id \in 0..MaxId :
               Call(t, "python", Send(kind, id))
  BY DispatchAssumption DEF Yield, Resume, CallbackReturns, Discover, CallMethod, Id,
     objects
<1>2. CASE stack' = stack
  BY <1>1, <1>2, OtherSound
<1>3. CASE t = "io" /\ Return(t)
  BY <1>1, <1>3, ReturnSound
<1>4. CASE t = "io" /\ \E kind \in {"call", "discover"}, id \in 0..MaxId :
                           Call(t, "python", Send(kind, id))
  <2>1. PICK kind \in {"call", "discover"}, id \in 0..MaxId :
           Call("io", "python", Send(kind, id))
    BY <1>4
  <2>2. Send(kind, id) \in Frames /\ Send(kind, id).at = "encrypt"
    BY SendFrame
  <2> QED BY <1>1, <2>1, <2>2, CallSound DEF Keeps, Labels
<1>5. CASE t # "io" /\ stack' # stack
  <2>1. stack'["io"] = stack["io"]
    BY <1>1, <1>5, IoStack, IoThread DEF Return, Call
  <2> QED BY <1>1, <2>1, OtherSound
<1> QED BY <1>1, <1>2, <1>3, <1>4, <1>5

\* PyConnect.disconnect takes an iterator to what it has just found.
LEMMA FoundSound ==
    ASSUME DispatchInv, NEW f \in Frames, NEW id, Found(id), f.id = id
    PROVE  Looked(f, id) \in Frames /\ SoundFrame(Looked(f, id), modules, ended)
<1>1. Find(id) \in DOMAIN modules /\ modules[Find(id)] = id /\ ended \in Nat
  BY FindIn DEF DispatchInv, RestTyped
<1>2. /\ Looked(f, id) \in Frames /\ Looked(f, id).id = id
      /\ Looked(f, id).pos = Find(id) /\ Looked(f, id).seen = ended
  BY LookedFrame
<1> QED BY <1>1, <1>2 DEF SoundFrame, Points

LEMMA DisconnectSound ==
    ASSUME ObjectsInv, NEW t \in Threads, NEW id \in Id, Disconnect(t, id)
    PROVE  SoundStack(stack["io"], modules, ended)'
<1> DEFINE f == Frame("destroy", "disconnect", id)
           a == Send("shutdown", id)
           b == Looked(f, id)
           s == stack["io"]
<1>1. /\ Found(id) /\ UNCHANGED <<modules, ended>>
      /\ stack' = [stack EXCEPT ![t] = <<a, b>> \o @]
  BY DEF Disconnect
<1>2. CASE t = "io"
  <2>1. id \in 0..MaxId
    BY DispatchAssumption DEF Id
  <2>2. a \in Frames /\ a.at = "encrypt"
    BY <2>1, SendFrame
  <2>3. f \in Frames /\ f.id = id
    BY <2>1, NewFrame DEF Labels, Kinds
  <2> HIDE DEF f, a
  <2>4. b \in Frames /\ SoundFrame(b, modules, ended)
    BY <1>1, <2>3, FoundSound DEF ObjectsInv
  <2>5. stack'["io"] = <<a, b>> \o s
    BY <1>1, <1>2, IoStack, IoThread
  <2> HIDE DEF b, s
  <2>6. s \in Seq(Frames) /\ SoundStack(s, modules, ended)
    BY IoStack DEF ObjectsInv, s
  <2>7. stack'["io"] = <<a>> \o (<<b>> \o s)
    <3>1. \A q \in Seq(Frames) : <<a, b>> \o q = <<a>> \o (<<b>> \o q)
      BY <2>2, <2>4, ConsTwo
    <3> QED BY <2>5, <2>6, <3>1
  <2>8. <<b>> \o s \in Seq(Frames) /\ SoundStack(<<b>> \o s, modules, ended)
    BY <2>4, <2>6, SoundCons
  <2>9. SoundFrame(a, modules, ended)
    BY <2>2 DEF SoundFrame, Keeps
  <2> QED BY <1>1, <2>2, <2>7, <2>8, <2>9, SoundCons
<1>3. CASE t # "io"
  <2>1. stack'["io"] = stack["io"]
    BY <1>1, <1>3, IoStack, IoThread
  <2> QED BY <1>1, <2>1, OtherSound
<1> QED BY <1>2, <1>3

-----------------------------------------------------------------------------
(* The handlers of the IO thread.                                          *)

LEMMA ArrivalSound ==
    ASSUME ObjectsInv, Arrival
    PROVE  SoundStack(stack["io"], modules, ended)'
<1>1. PICK kind \in {"declare", "message", "unknown", "shutdown", "closed"},
           at \in {"touch", "lookup"}, id \in 0..MaxId : Begin(kind, id, at)
  BY DispatchAssumption DEF Arrival, Declared, Received, Unknown, Left, Closed, Id
<1> DEFINE f == Frame(at, kind, id)
<1>2. f \in Frames /\ f.at = at
  BY NewFrame DEF Labels, Kinds
<1>3. Call("io", "select", f) /\ UNCHANGED <<modules, ended>>
  BY <1>1 DEF Begin, objects
<1> HIDE DEF f
<1> QED BY <1>2, <1>3, CallSound DEF Keeps, Labels

LEMMA LookupSound ==
    ASSUME ObjectsInv, Lookup
    PROVE  SoundStack(stack["io"], modules, ended)'
<1>1. UNCHANGED <<modules, ended>>
  BY DEF Lookup, objects
<1>2. CASE Found(Top("io").id) /\ stack' = [stack EXCEPT !["io"] =
               <<Looked([Top("io") EXCEPT !.at = "gil"], Top("io").id)>> \o Tail(@)]
  <2> DEFINE g == [Top("io") EXCEPT !.at = "gil"]
             f == Looked(g, Top("io").id)
  <2>1. g \in Frames /\ g.id = Top("io").id
    BY IoStack, FrameAt DEF Labels
  <2> HIDE DEF g
  <2>2. f \in Frames /\ SoundFrame(f, modules, ended)
    BY <1>2, <2>1, FoundSound DEF ObjectsInv
  <2>3. stack'["io"] = <<f>> \o Tail(stack["io"])
    BY <1>2, IoStack, IoThread DEF g
  <2> HIDE DEF f
  <2> QED BY <1>1, <2>2, <2>3, IoStack, SoundCons
<1>3. CASE Goto("io", "unmap")
  BY <1>1, <1>3, GotoSound DEF Keeps, Labels
<1>4. CASE Return("io")
  BY <1>1, <1>4, ReturnSound
<1> QED BY <1>2, <1>3, <1>4 DEF Lookup

LEMMA GoingOnSound ==
    ASSUME ObjectsInv, Touch \/ TakeGil \/ Use \/ Ignore \/ Drop \/ Unmap \/ Close
    PROVE  SoundStack(stack["io"], modules, ended)'
<1>1. UNCHANGED <<modules, ended>>
  BY DEF Touch, TakeGil, Use, Ignore, Drop, Unmap, Close, objects
<1>2. CASE Return("io")
  BY <1>1, <1>2, ReturnSound
<1>3. CASE \E at \in {"lookup", "push", "close"} : Goto("io", at)
  BY <1>1, <1>3, GotoSound DEF Keeps, Labels
<1>4. CASE Top("io").kind = "declare" /\ Goto("io", "gil")
  BY <1>1, <1>4, GotoSound DEF Labels
<1>5. CASE Top("io").at \in Keeps /\ \E at \in {"use", "destroy", "drop"} : Goto("io", at)
  BY <1>1, <1>5, GotoSound DEF Labels
<1>6. CASE Top("io").at \in Keeps /\ Call("io", "drop", Callback)
  BY <1>1, <1>6, CallbackFrame, CallSound DEF Labels, Keeps
<1> QED BY <1>2, <1>3, <1>4, <1>5, <1>6 DEF Touch, TakeGil, Use, Ignore, Drop, Unmap,
        Close, At, Keeps

\* These change modules_ while the IO thread has no other iterator.
LEMMA ModulesSound ==
    ASSUME ObjectsInv, EraseByID \/ PushBack \/ Assign
    PROVE  SoundStack(stack["io"], modules, ended)'
<1>1. /\ Top("io").kind \notin {"io", "script"} /\ Beneath(Top("io")) = {"select"}
      /\ Top("io").at \in {"push", "assign"} => nextObjId \in 0..MaxId /\ Top("io").id \in 0..MaxId
  <2>1. Top("io").at \in {"erase", "push", "assign"}
        /\ (Top("io").at = "erase" => Top("io").kind # "disconnect")
    BY DEF EraseByID, PushBack, Assign, At
  <2>2. DispatchInv /\ nextObjId \in 1..(MaxId + 1) /\ Top("io").id \in 0..MaxId
    BY IoStack DEF ObjectsInv, DispatchInv, RestTyped, Frames
  <2> QED BY <2>1, <2>2, IoThread, HandlerTop, DispatchAssumption
<1>2. Tail(stack["io"]) \in Seq(Frames)
      /\ SoundStack(Tail(stack["io"]), modules', ended')
  BY <1>1, RootSound DEF ObjectsInv
<1>3. CASE EraseByID
  <2>1. stack'["io"] = Tail(stack["io"]) \/ stack'["io"] = Moved("io", "unmap")
    BY <1>3, IoStack, IoThread DEF EraseByID, Goto, Return
  <2>2. CASE stack'["io"] = Moved("io", "unmap")
    <3> DEFINE g == [Top("io") EXCEPT !.at = "unmap"]
    <3>1. g \in Frames /\ g.at = "unmap"
      BY IoStack, FrameAt DEF Labels
    <3> HIDE DEF g
    <3>2. SoundFrame(g, modules', ended')
      BY <3>1 DEF SoundFrame, Keeps
    <3>3. stack'["io"] = <<g>> \o Tail(stack["io"])
      BY <2>2 DEF Moved, g
    <3> QED BY <1>2, <3>1, <3>2, <3>3, SoundCons
  <2> QED BY <1>2, <2>1, <2>2
<1>4. CASE PushBack
  <2> DEFINE f == [Top("io") EXCEPT !.at = "assign", !.id = nextObjId]
  <2>1. stack'["io"] = <<f>> \o Tail(stack["io"])
    BY <1>4 DEF PushBack
  <2>2. nextObjId \in 0..MaxId
    BY <1>1, <1>4 DEF PushBack, At
  <2>3. \A h \in Frames : LET k == [h EXCEPT !.at = "assign", !.id = nextObjId]
                          IN  k \in Frames /\ k.at = "assign"
    BY <2>2 DEF Frames, Labels
  <2>4. f \in Frames /\ f.at = "assign"
    BY <2>3, IoStack
  <2> HIDE DEF f
  <2>5. SoundFrame(f, modules', ended')
    BY <2>4 DEF SoundFrame, Keeps
  <2> QED BY <1>2, <2>1, <2>4, <2>5, SoundCons
<1>5. CASE Assign
  <2> DEFINE f == Send("assign", Top("io").id)
  <2>1. stack'["io"] = <<f>> \o Tail(stack["io"])
    BY <1>5, IoStack, IoThread DEF Assign
  <2>2. f \in Frames /\ f.at = "encrypt"
    <3>1. Top("io").id \in 0..MaxId
      BY <1>1, <1>5 DEF Assign, At
    <3>2. "encrypt" \in Labels /\ "assign" \in Kinds
      BY DEF Labels, Kinds
    <3>3. f = Frame("encrypt", "assign", Top("io").id)
      BY DEF Send
    <3> HIDE DEF f
    <3> QED BY <3>1, <3>2, <3>3, NewFrame
  <2> HIDE DEF f
  <2>3. SoundFrame(f, modules', ended')
    BY <2>2 DEF SoundFrame, Keeps
  <2> QED BY <1>2, <2>1, <2>2, <2>3, SoundCons
<1> QED BY <1>3, <1>4, <1>5

-----------------------------------------------------------------------------
LEMMA ObjectsInvInit == Init => ObjectsInv
<1> SUFFICES ASSUME Init PROVE ObjectsInv
  OBVIOUS
<1> DEFINE f == Frame("select", "io", 0)
<1>1. stack["io"] = <<f>>
  BY DEF Init
<1>2. f \in Frames /\ f.at = "select"
  BY DispatchAssumption, NewFrame DEF Labels, Kinds
<1> HIDE DEF f
<1>3. SoundFrame(f, modules, ended)
  BY <1>2 DEF SoundFrame, Keeps
<1>4. SoundStack(<<f>>, modules, ended)
  BY <1>3 DEF SoundStack
<1> QED BY <1>1, <1>4, DispatchInvInit DEF ObjectsInv

LEMMA ObjectsInvNext == ObjectsInv /\ [Next]_vars => ObjectsInv'
<1> SUFFICES ASSUME ObjectsInv, [Next]_vars
             PROVE  SoundStack(stack["io"], modules, ended)'
  BY DispatchInvNext DEF ObjectsInv
<1> DEFINE G == SoundStack(stack["io"], modules, ended)'
<1> HIDE DEF G
<1> SUFFICES G
  BY DEF G
<1>1. CASE UNCHANGED vars
  BY <1>1, OtherSound DEF vars, objects, G
<1>2. CASE Handling
  BY <1>2, LookupSound, GoingOnSound, ModulesSound DEF Handling, G
<1>3. ASSUME NEW t \in Threads, Get(t) \/ Yield(t) PROVE G
  BY <1>3, PythonSound, GoingOnSound DEF Get, G
<1>4. ASSUME NEW t \in Threads, Run(t) PROVE G
  BY <1>2, <1>4, SendingSound, DestroySound, EraseByRefSound, PythonSound DEF Run, G
<1>5. ASSUME NEW t \in Threads, Scripting(t) PROVE G
  BY <1>5, PythonSound, DisconnectSound DEF Scripting, G
<1>6. CASE Arrival
  BY <1>6, ArrivalSound DEF G
<1> QED BY <1>1, <1>3, <1>4, <1>5, <1>6 DEF Next

\* What the IO thread has found in modules_ without the GIL stays where it is
\* until it is done, through every callback and every operation of the script
\* but a PyConnect.disconnect.
THEOREM DisturbedByDisconnectOnly == Spec => []OnlyDisconnectsDisturb
<1>1. Spec => []ObjectsInv
  BY ObjectsInvInit, ObjectsInvNext, PTL DEF Spec
<1>2. ObjectsInv => OnlyDisconnectsDisturb
  <2> SUFFICES ASSUME ObjectsInv, NEW i \in DOMAIN stack["io"]
               PROVE  LET m == stack["io"][i]
                      IN m.at \in Keeps /\ m.kind # "declare" /\ m.seen = ended
                         => m.pos \in DOMAIN modules /\ modules[m.pos] = m.id
    BY DEF OnlyDisconnectsDisturb, Keeps
  <2>1. i \in 1..Len(stack["io"])
    BY IoStack
  <2>2. SoundFrame(stack["io"][i], modules, ended)
    BY <2>1 DEF ObjectsInv, SoundStack
  <2> QED BY <2>2 DEF SoundFrame, Points
<1> QED BY <1>1, <1>2, PTL

-----------------------------------------------------------------------------
(* Until a script disconnects a module.                                    *)

CalmFrames == {f \in Frames : f.kind # "disconnect"}

HasErase(s, id) == \E i \in 1..Len(s) : s[i].at = "erase" /\ s[i].id = id
Listed(mods, id) == \E i \in DOMAIN mods : mods[i] = id

CalmStacks == \A t \in Threads : stack[t] \in Seq(CalmFrames)
Distinct(mods) == \A i, j \in DOMAIN mods : mods[i] = mods[j] => i = j

\* The next id is in modules_ before nextObjId_ is incremented, and only then.
Fresh == \A i \in DOMAIN modules :
    modules[i] < nextObjId \/ (Top("io").at = "assign" /\ modules[i] = nextObjId)
Unborn == \A id \in Id : id >= nextObjId => destroyed[id] = 0

\* A module whose end the script has been told of is erased at once.
Counted == \A id \in Id :
    /\ destroyed[id] <= 1
    /\ destroyed[id] # 0 /\ Listed(modules, id) => HasErase(stack["io"], id)

Calm == /\ up /\ ended = 0 /\ CalmStacks
        /\ Distinct(modules) /\ Fresh /\ Unborn /\ Counted

CalmInv == ObjectsInv /\ (begun = 0 => Calm)

LEMMA EraseCons ==
    ASSUME NEW s \in Seq(Frames), NEW f \in Frames, NEW id
    PROVE  /\ HasErase(s, id) => HasErase(<<f>> \o s, id)
           /\ f.at = "erase" /\ f.id = id => HasErase(<<f>> \o s, id)
<1> DEFINE r == <<f>> \o s
<1>1. /\ Len(r) = Len(s) + 1 /\ r[1] = f /\ Len(s) \in Nat
      /\ \A i \in 1..Len(s) : r[i + 1] = s[i]
  BY ConsSeq
<1> HIDE DEF r
<1>2. 1 \in 1..Len(r) /\ \A i \in 1..Len(s) : i + 1 \in 1..Len(r)
  BY <1>1
<1>3. HasErase(s, id) => HasErase(r, id)
  BY <1>1, <1>2 DEF HasErase
<1>4. f.at = "erase" /\ f.id = id => HasErase(r, id)
  BY <1>1, <1>2 DEF HasErase
<1> QED BY <1>3, <1>4 DEF r

LEMMA EraseTail ==
    ASSUME NEW s \in Seq(Frames), s # <<>>, NEW id, HasErase(s, id),
           Head(s).at # "erase" \/ Head(s).id # id
    PROVE  HasErase(Tail(s), id)
<1>1. /\ Len(Tail(s)) = Len(s) - 1 /\ Len(s) \in Nat \ {0} /\ Head(s) = s[1]
      /\ \A i \in 1..(Len(s) - 1) : Tail(s)[i] = s[i + 1]
  BY TailSeq
<1>2. PICK i \in 1..Len(s) : s[i].at = "erase" /\ s[i].id = id
  BY DEF HasErase
<1>3. i # 1
  BY <1>1, <1>2
<1>4. i - 1 \in 1..(Len(s) - 1) /\ (i - 1) + 1 = i
  BY <1>1, <1>3
<1>5. Tail(s)[i - 1] = s[i]
  BY <1>1, <1>4
<1>6. i - 1 \in 1..Len(Tail(s))
  BY <1>1, <1>4
<1> QED BY <1>2, <1>5, <1>6 DEF HasErase

\* The stacks after a step of t: its top frame has changed, another one may
\* have been put onto it.
Shape(t) ==
    \/ stack' = stack
    \/ Return(t)
    \/ \E at \in Labels : Goto(t, at)
    \/ \E at \in Labels, f \in CalmFrames : Call(t, at, f)
    \/ \E f \in CalmFrames : stack' = [stack EXCEPT ![t] = <<f>> \o Tail(@)]

LEMMA StackParts ==
    ASSUME DispatchInv, CalmStacks, NEW t \in Threads
    PROVE  /\ stack[t] \in Seq(CalmFrames) /\ stack[t] \in Seq(Frames) /\ stack[t] # <<>>
           /\ Tail(stack[t]) \in Seq(CalmFrames) /\ Tail(stack[t]) \in Seq(Frames)
           /\ Top(t) \in CalmFrames /\ Top(t) \in Frames
           /\ stack = [u \in Threads |-> stack[u]]
<1>1. stack[t] \in Seq(CalmFrames) /\ stack[t] \in Seq(Frames) /\ stack[t] # <<>>
  BY TopGood DEF CalmStacks, GoodStack
<1>2. Tail(stack[t]) \in Seq(CalmFrames) /\ Head(stack[t]) \in CalmFrames
  BY <1>1, TailSeq
<1>3. Tail(stack[t]) \in Seq(Frames) /\ Head(stack[t]) \in Frames
  BY <1>1, TailSeq
<1> QED BY <1>1, <1>2, <1>3 DEF Top, DispatchInv, RestTyped

LEMMA MovedCalm ==
    ASSUME DispatchInv, CalmStacks, NEW t \in Threads, NEW at \in Labels
    PROVE  /\ Moved(t, at) \in Seq(CalmFrames) /\ Moved(t, at) \in Seq(Frames)
           /\ \A id : HasErase(Tail(stack[t]), id) => HasErase(Moved(t, at), id)
           /\ at = "erase" => HasErase(Moved(t, at), Top(t).id)
<1> DEFINE g == [Top(t) EXCEPT !.at = at]
<1>1. g \in Frames /\ g.at = at /\ g.kind = Top(t).kind /\ g.id = Top(t).id
  BY StackParts, FrameAt
<1> HIDE DEF g
<1>2. g \in CalmFrames
  BY <1>1, StackParts DEF CalmFrames
<1>3. Moved(t, at) = <<g>> \o Tail(stack[t])
  BY DEF Moved, g
<1>4. Moved(t, at) \in Seq(CalmFrames)
  BY <1>2, <1>3, StackParts, ConsSeq
<1>5. Moved(t, at) \in Seq(Frames)
  BY <1>1, <1>3, StackParts, ConsSeq
<1>6. Tail(stack[t]) \in Seq(Frames)
  BY StackParts
<1>7. \A id : HasErase(Tail(stack[t]), id) => HasErase(<<g>> \o Tail(stack[t]), id)
  BY <1>1, <1>6, EraseCons
<1>8. at = "erase" => HasErase(<<g>> \o Tail(stack[t]), Top(t).id)
  BY <1>1, <1>6, EraseCons
<1> QED BY <1>3, <1>4, <1>5, <1>7, <1>8

LEMMA ShapeCalm ==
    ASSUME DispatchInv, CalmStacks, NEW t \in Threads, Shape(t)
    PROVE  /\ CalmStacks'
           /\ t # "io" => stack'["io"] = stack["io"]
           /\ Top("io").at # "erase" =>
                \A id : HasErase(stack["io"], id) => HasErase(stack'["io"], id)
<1> DEFINE s == stack[t]
           Good(r) == /\ r \in Seq(CalmFrames)
                      /\ \A id : HasErase(Tail(s), id) => HasErase(r, id)
<1>1. CASE stack' = stack
  BY <1>1 DEF CalmStacks
<1>2. ASSUME NEW r, Good(r), stack' = [stack EXCEPT ![t] = r]
      PROVE  /\ CalmStacks'
             /\ t # "io" => stack'["io"] = stack["io"]
             /\ Top("io").at # "erase" =>
                  \A id : HasErase(stack["io"], id) => HasErase(stack'["io"], id)
  <2>1. stack'[t] = r /\ \A u \in Threads : u # t => stack'[u] = stack[u]
    BY <1>2, StackParts
  <2>2. CalmStacks'
    BY <1>2, <2>1 DEF CalmStacks
  <2>3. ASSUME Top("io").at # "erase", NEW id, HasErase(stack["io"], id)
        PROVE  HasErase(stack'["io"], id)
    <3>1. CASE t = "io"
      <4>1. HasErase(Tail(stack["io"]), id)
        BY <2>3, <3>1, StackParts, EraseTail DEF Top
      <4> QED BY <1>2, <2>1, <3>1, <4>1
    <3>2. CASE t # "io"
      BY <2>1, <2>3, <3>2, IoThread
    <3> QED BY <3>1, <3>2
  <2> QED BY <2>1, <2>2, <2>3, IoThread
<1>3. CASE Return(t)
  BY <1>2, <1>3, StackParts DEF Return
<1>4. ASSUME NEW at \in Labels, Goto(t, at) PROVE Good(Moved(t, at))
  BY MovedCalm
<1>5. ASSUME NEW at \in Labels, NEW f \in CalmFrames PROVE Good(<<f>> \o Moved(t, at))
  <2>1. f \in Frames
    BY DEF CalmFrames
  <2>2. <<f>> \o Moved(t, at) \in Seq(CalmFrames)
    BY MovedCalm, ConsSeq
  <2> QED BY <2>1, <2>2, MovedCalm, EraseCons
<1>6. ASSUME NEW f \in CalmFrames PROVE Good(<<f>> \o Tail(s))
  <2>1. f \in Frames
    BY DEF CalmFrames
  <2>2. <<f>> \o Tail(s) \in Seq(CalmFrames)
    BY StackParts, ConsSeq
  <2> QED BY <2>1, <2>2, StackParts, EraseCons
<1> HIDE DEF Good
<1>7. CASE \E at \in Labels : Goto(t, at)
  BY <1>2, <1>4, <1>7 DEF Goto
<1>8. CASE \E at \in Labels, f \in CalmFrames : Call(t, at, f)
  BY <1>2, <1>5, <1>8 DEF Call
<1>9. CASE \E f \in CalmFrames : stack' = [stack EXCEPT ![t] = <<f>> \o Tail(@)]
  BY <1>2, <1>6, <1>9
<1> QED BY <1>1, <1>3, <1>7, <1>8, <1>9 DEF Shape

\* Most steps.
LEMMA PlainCalm ==
    ASSUME ObjectsInv, Calm, NEW t \in Threads, Shape(t), up',
           UNCHANGED <<modules, nextObjId, destroyed, ended>>,
           t = "io" => Top("io").at \notin {"assign", "erase"}
    PROVE  Calm'
<1>1. DispatchInv /\ CalmStacks
  BY DEF ObjectsInv, Calm
<1>2. CalmStacks' /\ (t # "io" => stack'["io"] = stack["io"])
  BY <1>1, ShapeCalm
<1>3. Fresh'
  <2>1. CASE t = "io"
    BY <2>1 DEF Calm, Fresh
  <2>2. CASE t # "io"
    BY <1>2, <2>2 DEF Calm, Fresh, Top
  <2> QED BY <2>1, <2>2
<1>4. \A id : HasErase(stack["io"], id) => HasErase(stack'["io"], id)
  BY <1>1, <1>2, ShapeCalm
<1>5. Counted'
  BY <1>4 DEF Calm, Counted
<1> QED BY <1>2, <1>3, <1>5 DEF Calm, Unborn

-----------------------------------------------------------------------------
LEMMA SendingCalm ==
    ASSUME ObjectsInv, Calm, NEW t \in Threads, Sending(t)
    PROVE  Calm'
<1>1. UNCHANGED <<modules, nextObjId, destroyed, up, ended>> /\ Top(t).at \in Sends
      /\ \/ Return(t)
         \/ \E at \in {"encrypting", "lock", "copy", "talk", "talking", "write"} : Goto(t, at)
  BY DEF Sending, BeginEncrypt, EndEncrypt, LockToSend, Copy, NoChannel, Talk, Talked,
     Write, objects, At, Sends
<1>2. Shape(t)
  BY <1>1 DEF Shape, Labels
<1> QED BY <1>1, <1>2, PlainCalm DEF Calm, Sends

LEMMA CallbackCalm == Callback \in CalmFrames /\ "erase" \in Labels /\ "drop" \in Labels
  BY CallbackFrame DEF CalmFrames, Labels

LEMMA PythonCalm ==
    ASSUME ObjectsInv, Calm, NEW t \in Threads,
           \/ Yield(t) \/ Resume(t) \/ CallbackReturns(t) \/ Discover(t)
           \/ \E id \in Id : CallMethod(t, id)
    PROVE  Calm'
<1>1. UNCHANGED <<modules, nextObjId, destroyed, up, ended>> /\ Top(t).at = "python"
      /\ \/ stack' = stack \/ Return(t)
         \/ \E kind \in {"call", "discover"}, id \in 0..MaxId :
               Call(t, "python", Send(kind, id))
  BY DispatchAssumption DEF Yield, Resume, CallbackReturns, Discover, CallMethod, Id,
     objects, Running, At
<1>2. \A kind \in {"call", "discover"}, id \in 0..MaxId : Send(kind, id) \in CalmFrames
  BY SendFrame DEF CalmFrames
<1>3. Shape(t)
  BY <1>1, <1>2 DEF Shape, Labels
<1> QED BY <1>1, <1>3, PlainCalm DEF Calm

LEMMA ArrivalCalm ==
    ASSUME ObjectsInv, Calm, Arrival
    PROVE  Calm'
<1>1. PICK kind \in {"declare", "message", "unknown", "shutdown", "closed"},
           at \in {"touch", "lookup"}, id \in 0..MaxId : Begin(kind, id, at)
  BY DispatchAssumption DEF Arrival, Declared, Received, Unknown, Left, Closed, Id
<1>2. Frame(at, kind, id) \in CalmFrames
  BY NewFrame DEF Labels, Kinds, CalmFrames
<1>3. Shape("io")
  BY <1>1, <1>2 DEF Shape, Begin, Labels
<1>4. UNCHANGED <<modules, nextObjId, destroyed, up, ended>> /\ Top("io").at = "select"
  BY <1>1 DEF Begin, objects, At
<1> QED BY <1>3, <1>4, IoThread, PlainCalm DEF Calm

\* An iterator that is in use points to its module.
LEMMA TopPoints ==
    ASSUME ObjectsInv, Calm, Top("io").at \in {"use", "destroy", "erase"}
    PROVE  /\ Top("io").kind \notin {"declare", "disconnect", "io", "script"}
           /\ Points(Top("io"), modules)
           /\ Beneath(Top("io")) = {"select"}
<1>1. /\ Top("io") \in CalmFrames /\ Top("io") \in Frames
  BY IoThread, StackParts DEF ObjectsInv, Calm
<1>2. /\ Top("io").kind \notin {"declare", "disconnect", "io", "script"}
      /\ Beneath(Top("io")) = {"select"}
  BY <1>1, IoThread, HandlerTop DEF ObjectsInv, CalmFrames
<1>3. SoundFrame(Top("io"), modules, ended) /\ Top("io").seen \in Nat /\ ended = 0
  BY <1>1, IoStack DEF Frames, Calm
<1> QED BY <1>2, <1>3 DEF SoundFrame, Keeps

LEMMA GoingOnCalm ==
    ASSUME ObjectsInv, Calm,
           Touch \/ Lookup \/ TakeGil \/ Use \/ Ignore \/ Drop \/ Unmap \/ Close
    PROVE  Calm'
<1>1. UNCHANGED <<modules, nextObjId, destroyed, ended>>
      /\ Top("io").at \in {"touch", "lookup", "gil", "use", "drop", "unmap", "close"}
  BY DEF Touch, Lookup, TakeGil, Use, Ignore, Drop, Unmap, Close, objects, At
<1>2. up'
  <2>1. CASE Use
    <3>1. Found(Top("io").id)
      BY <2>1, TopPoints DEF Use, At, Points, Found
    <3> QED BY <2>1, <3>1 DEF Use
  <2>2. CASE ~Use
    BY <2>2 DEF Touch, Lookup, TakeGil, Ignore, Drop, Unmap, Close, objects, Calm
  <2> QED BY <2>1, <2>2
<1>3. Shape("io")
  <2>1. CASE Lookup
    <3>1. CASE Found(Top("io").id) /\ stack' = [stack EXCEPT !["io"] =
                 <<Looked([Top("io") EXCEPT !.at = "gil"], Top("io").id)>> \o Tail(@)]
      <4> DEFINE g == [Top("io") EXCEPT !.at = "gil"]
      <4>1. Top("io") \in CalmFrames /\ Top("io") \in Frames
        BY IoThread, StackParts DEF ObjectsInv, Calm
      <4>2. g \in Frames /\ g.kind = Top("io").kind
        BY <4>1, FrameAt DEF Labels
      <4> HIDE DEF g
      <4>3. Looked(g, Top("io").id) \in CalmFrames
        BY <3>1, <4>1, <4>2, LookedFrame DEF ObjectsInv, CalmFrames
      <4> QED BY <3>1, <4>3 DEF Shape, g
    <3>2. CASE Goto("io", "unmap") \/ Return("io")
      BY <3>2 DEF Shape, Labels
    <3> QED BY <2>1, <3>1, <3>2 DEF Lookup
  <2>2. CASE ~Lookup
    <3>1. \/ Return("io")
          \/ \E at \in {"lookup", "gil", "push", "use", "destroy", "drop", "close"} :
                Goto("io", at)
          \/ Call("io", "drop", Callback)
      BY <2>2 DEF Touch, TakeGil, Use, Ignore, Drop, Unmap, Close
    <3> QED BY <3>1, CallbackCalm DEF Shape, Labels
  <2> QED BY <2>1, <2>2
<1> QED BY <1>1, <1>2, <1>3, IoThread, PlainCalm

\* As long as there is a handler, no frame beneath it is about to erase.
LEMMA OneHandler ==
    ASSUME DispatchInv, CalmStacks, Top("io").kind \notin {"io", "script"},
           Beneath(Top("io")) = {"select"}, NEW id, HasErase(stack["io"], id)
    PROVE  Top("io").at = "erase" /\ Top("io").id = id
<1>1. GoodStack("io", stack["io"], nextObjId) /\ Len(stack["io"]) > 1
  BY IoThread, TopGood
<1>2. \A i \in 1..Len(Tail(stack["io"])) : Tail(stack["io"])[i].at = "select"
  BY <1>1, IoThread, OnlyRootBeneath DEF Top
<1>3. ~HasErase(Tail(stack["io"]), id)
  BY <1>2 DEF HasErase
<1> QED BY <1>3, IoThread, StackParts, EraseTail DEF Top

LEMMA HandlerIsIo ==
    ASSUME DispatchInv, CalmStacks, NEW t \in Threads, Top(t).at \in {"destroy", "erase"}
    PROVE  t = "io"
<1> SUFFICES ASSUME t = "py" PROVE FALSE
  BY DEF Threads
<1>1. Top(t).kind \notin {"disconnect", "io", "script"} /\ Beneath(Top(t)) = {"select"}
  BY HandlerTop, StackParts DEF CalmFrames
<1> DEFINE s == stack[t]
           n == nextObjId
<1>2. GoodStack(t, s, n) /\ Len(s) > 1 /\ Beneath(Head(s)) = {"select"}
  BY <1>1, TopGood DEF Top
<1> HIDE DEF s, n
<1>3. \A i \in 1..Len(Tail(s)) : Tail(s)[i].at = "select"
  BY <1>2, OnlyRootBeneath
<1>4. /\ Len(Tail(s)) = Len(s) - 1 /\ Len(s) \in Nat
      /\ \A i \in 1..(Len(s) - 1) : Tail(s)[i] = s[i + 1]
  BY <1>2, TailSeq DEF GoodStack
<1>5. Len(s) - 1 \in 1..(Len(s) - 1) /\ (Len(s) - 1) + 1 = Len(s) /\ Len(s) \in 1..Len(s)
  BY <1>2, <1>4
<1>6. s[Len(s)].at = "select"
  BY <1>3, <1>4, <1>5
<1>7. s[Len(s)].kind = "script"
  BY <1>2 DEF GoodStack, Root
<1> QED BY <1>2, <1>5, <1>6, <1>7 DEF GoodStack, GoodFrame

LEMMA CountTyped ==
    ASSUME ObjectsInv, Calm
    PROVE  /\ modules \in Seq(Id) /\ nextObjId \in Nat /\ ended \in Nat
           /\ \A id \in Id : id \in Nat /\ (destroyed[id] = 0 \/ destroyed[id] = 1)
           /\ destroyed \in [Id -> Nat]
<1>1. modules \in Seq(Id) /\ nextObjId \in Nat /\ destroyed \in [Id -> Nat] /\ ended \in Nat
  BY DispatchAssumption DEF ObjectsInv, DispatchInv, RestTyped
<1>2. \A id \in Id : destroyed[id] \in Nat /\ destroyed[id] <= 1 /\ id \in Nat
  BY <1>1 DEF Calm, Counted, Id
<1> QED BY <1>1, <1>2

LEMMA DestroyCalm ==
    ASSUME ObjectsInv, Calm, NEW t \in Threads, Destroy(t)
    PROVE  Calm'
<1>0. DispatchInv /\ CalmStacks /\ t = "io" /\ Top("io").at = "destroy"
  BY HandlerIsIo DEF ObjectsInv, Calm, Destroy, At
<1> DEFINE x == Top("io").id
<1>1. /\ up' \in {TRUE, ~Dangling(Top("io"))} /\ Call("io", "erase", Callback)
      /\ destroyed' = [destroyed EXCEPT ![x] = @ + 1]
      /\ UNCHANGED <<modules, nextObjId, ended>>
  BY <1>0 DEF Destroy
<1>2. /\ Top("io").kind \notin {"declare", "disconnect", "io", "script"}
      /\ Points(Top("io"), modules) /\ Beneath(Top("io")) = {"select"}
  BY <1>0, TopPoints
<1>3. up'
  BY <1>1, <1>2 DEF Dangling, Points
<1>4. \A id : ~HasErase(stack["io"], id)
  BY <1>0, <1>2, OneHandler
<1>5. Listed(modules, x) /\ x \in Id /\ x < nextObjId
  BY <1>0, <1>2, CountTyped DEF Points, Listed, Calm, Fresh
<1>6. destroyed[x] = 0 /\ destroyed'[x] = 1
      /\ \A id \in Id : id # x => destroyed'[id] = destroyed[id]
  BY <1>1, <1>4, <1>5, CountTyped DEF Calm, Counted
<1>7. Shape("io")
  BY <1>1, CallbackCalm DEF Shape
<1>8. CalmStacks'
  BY <1>0, <1>7, ShapeCalm
<1>9. HasErase(stack'["io"], x)
  <2>1. stack'["io"] = <<Callback>> \o Moved("io", "erase")
    BY <1>1, IoStack, IoThread DEF Call
  <2>2. Moved("io", "erase") \in Seq(Frames) /\ HasErase(Moved("io", "erase"), x)
    BY <1>0, CallbackCalm, MovedCalm
  <2> QED BY <2>1, <2>2, CallbackFrame, EraseCons
<1> HIDE DEF x
<1>10. Counted'
  <2> SUFFICES ASSUME NEW id \in Id
               PROVE  /\ destroyed'[id] <= 1
                      /\ destroyed'[id] # 0 /\ Listed(modules', id) =>
                            HasErase(stack'["io"], id)
    BY DEF Counted
  <2>1. CASE id = x
    BY <1>6, <1>9, <2>1
  <2>2. CASE id # x
    BY <1>1, <1>4, <1>6, <2>2, CountTyped DEF Calm, Counted
  <2> QED BY <2>1, <2>2
<1>11. Fresh'
  BY <1>0, <1>1 DEF Calm, Fresh
<1>12. Unborn'
  BY <1>1, <1>5, <1>6, CountTyped DEF Calm, Unborn
<1> QED BY <1>1, <1>3, <1>8, <1>10, <1>11, <1>12 DEF Calm

LEMMA EraseOne ==
    ASSUME NEW S, NEW q \in Seq(S), NEW i \in DOMAIN q, Distinct(q)
    PROVE  /\ Distinct(WithoutAt(q, i))
           /\ \A x : Listed(WithoutAt(q, i), x) => Listed(q, x) /\ x # q[i]
<1> DEFINE r == WithoutAt(q, i)
           from(k) == IF k < i THEN k ELSE k + 1
<1>1. Len(q) \in Nat \ {0} /\ DOMAIN q = 1..Len(q) /\ i \in 1..Len(q)
  OBVIOUS
<1>2. DOMAIN r = 1..(Len(q) - 1) /\ \A k \in DOMAIN r : r[k] = q[from(k)]
  BY <1>1 DEF WithoutAt
<1>3. \A k \in 1..(Len(q) - 1) : from(k) \in 1..Len(q) /\ from(k) # i
  BY <1>1
<1>4. \A k, l \in 1..(Len(q) - 1) : from(k) = from(l) => k = l
  BY <1>1
<1> HIDE DEF r, from
<1>5. Distinct(r)
  BY <1>1, <1>2, <1>3, <1>4 DEF Distinct
<1>6. \A x : Listed(r, x) => Listed(q, x) /\ x # q[i]
  BY <1>1, <1>2, <1>3 DEF Listed, Distinct
<1> QED BY <1>5, <1>6 DEF r

LEMMA EraseCalm ==
    ASSUME ObjectsInv, Calm, EraseByID
    PROVE  Calm'
<1>0. DispatchInv /\ CalmStacks /\ Top("io").at = "erase"
  BY DEF ObjectsInv, Calm, EraseByID, At
<1> DEFINE x == Top("io").id
           p == Top("io").pos
<1>1. Erase(Top("io")) /\ UNCHANGED <<nextObjId, destroyed, ended>>
      /\ (Goto("io", "unmap") \/ Return("io"))
  BY DEF EraseByID
<1>2. /\ Top("io").kind \notin {"declare", "disconnect", "io", "script"}
      /\ Points(Top("io"), modules) /\ Beneath(Top("io")) = {"select"}
  BY <1>0, TopPoints
<1>3. p \in DOMAIN modules /\ modules[p] = x /\ modules' = WithoutAt(modules, p) /\ up' = up
  BY <1>1, <1>2 DEF Erase, Dangling, Points
<1>4. Shape("io")
  BY <1>1 DEF Shape, Labels
<1>5. CalmStacks'
  BY <1>0, <1>4, ShapeCalm, IoThread
<1> HIDE DEF x, p
<1>6. Distinct(modules') /\ \A y : Listed(modules', y) => Listed(modules, y) /\ y # x
  BY <1>3, CountTyped, EraseOne DEF Calm
<1>7. \A id \in Id : Listed(modules', id) => destroyed[id] = 0
  BY <1>0, <1>2, <1>6, OneHandler DEF Calm, Counted, x
<1>8. Counted'
  BY <1>1, <1>7 DEF Calm, Counted
<1>9. Fresh'
  <2>1. \A i \in DOMAIN modules : modules[i] < nextObjId
    BY <1>0 DEF Calm, Fresh
  <2>2. ASSUME NEW i \in DOMAIN modules' PROVE modules'[i] < nextObjId
    <3>1. Listed(modules, modules'[i])
      BY <1>6, <2>2 DEF Listed
    <3> QED BY <2>1, <3>1 DEF Listed
  <2> QED BY <1>1, <2>2 DEF Fresh
<1> QED BY <1>1, <1>3, <1>5, <1>6, <1>8, <1>9 DEF Calm, Unborn

\* A reallocation of modules_ moves it away under the iterators of the script.
LEMMA IteratorsCalm ==
    ASSUME NEW s \in Seq(CalmFrames), NEW moved \in BOOLEAN
    PROVE  [i \in DOMAIN s |-> IF moved THEN [s[i] EXCEPT !.pos = 0] ELSE s[i]]
              \in Seq(CalmFrames)
<1> DEFINE g(f) == IF moved THEN [f EXCEPT !.pos = 0] ELSE f
           q == [i \in DOMAIN s |-> g(s[i])]
<1>1. \A f \in CalmFrames : g(f) \in CalmFrames
  BY DEF CalmFrames, Frames
<1> HIDE DEF g
<1>2. Len(s) \in Nat /\ DOMAIN s = 1..Len(s) /\ \A i \in 1..Len(s) : s[i] \in CalmFrames
  OBVIOUS
<1>3. q \in [1..Len(s) -> CalmFrames]
  BY <1>1, <1>2
<1> HIDE DEF q
<1>4. q \in Seq(CalmFrames)
  BY <1>2, <1>3
<1> QED BY <1>4 DEF q, g

LEMMA PushBackCalm ==
    ASSUME ObjectsInv, Calm, PushBack
    PROVE  Calm'
<1>0. DispatchInv /\ CalmStacks /\ Top("io").at = "push"
  BY DEF ObjectsInv, Calm, PushBack, At
<1> DEFINE f == [Top("io") EXCEPT !.at = "assign", !.id = nextObjId]
           py(moved) == [i \in DOMAIN stack["py"] |->
               IF moved THEN [stack["py"][i] EXCEPT !.pos = 0] ELSE stack["py"][i]]
<1>1. PICK moved \in BOOLEAN :
        stack' = [io |-> <<f>> \o Tail(stack["io"]), py |-> py(moved)]
  BY DEF PushBack
<1>2. modules' = Append(modules, nextObjId)
      /\ UNCHANGED <<nextObjId, up, destroyed, ended>>
  BY DEF PushBack
<1>3. /\ Top("io").kind = "declare" /\ Beneath(Top("io")) = {"select"}
      /\ nextObjId \in Id
  <2>1. Top("io").kind = "declare" /\ Beneath(Top("io")) = {"select"} /\ nextObjId <= MaxId
    BY <1>0, IoThread, HandlerTop
  <2>2. nextObjId \in 1..(MaxId + 1)
    BY <1>0 DEF DispatchInv, RestTyped
  <2> QED BY <2>1, <2>2, DispatchAssumption DEF Id
<1>4. f \in CalmFrames /\ f.at = "assign"
  <2>1. "assign" \in Labels /\ nextObjId \in 0..MaxId
    BY <1>3, DispatchAssumption DEF Labels, Id
  <2>2. \A h \in CalmFrames : LET k == [h EXCEPT !.at = "assign", !.id = nextObjId]
                              IN  k \in CalmFrames /\ k.at = "assign"
    BY <2>1 DEF CalmFrames, Frames
  <2> QED BY <1>0, <2>2, IoThread, StackParts
<1>5. py(moved) \in Seq(CalmFrames)
  BY <1>0, IoThread, StackParts, IteratorsCalm
<1> HIDE DEF f, py
<1>6. <<f>> \o Tail(stack["io"]) \in Seq(CalmFrames) /\ Head(<<f>> \o Tail(stack["io"])) = f
  BY <1>0, <1>4, IoThread, StackParts, ConsSeq
<1>7. CalmStacks' /\ Top("io")' = f
  BY <1>1, <1>5, <1>6 DEF CalmStacks, Threads, Top
<1> DEFINE k == Len(modules) + 1
<1>8. /\ DOMAIN modules' = 1..k /\ DOMAIN modules = 1..(k - 1) /\ k \in Nat \ {0}
      /\ modules'[k] = nextObjId /\ \A i \in 1..(k - 1) : modules'[i] = modules[i]
  BY <1>2, <1>3, CountTyped
<1> HIDE DEF k
<1>9. \A i \in 1..(k - 1) : modules[i] < nextObjId /\ modules[i] \in Id
  <2>1. \A i \in DOMAIN modules : modules[i] \in Id
    BY CountTyped
  <2>2. \A i \in DOMAIN modules : modules[i] < nextObjId
    BY <1>0 DEF Calm, Fresh
  <2> QED BY <1>8, <2>1, <2>2
<1>10. \A i \in 1..k : i = k \/ i \in 1..(k - 1)
  BY <1>8
<1>11. \A i \in 1..(k - 1) : modules'[i] # modules'[k]
  BY <1>3, <1>8, <1>9, CountTyped
<1>12. Distinct(modules')
  BY <1>8, <1>10, <1>11 DEF Distinct, Calm
<1>13. Fresh'
  BY <1>2, <1>4, <1>7, <1>8, <1>9, <1>10 DEF Fresh
<1>14. Counted'
  <2>1. \A id \in Id : Listed(modules', id) => Listed(modules, id) \/ id = nextObjId
    BY <1>8, <1>10 DEF Listed
  <2>2. \A id \in Id : Listed(modules, id) => destroyed[id] = 0
    BY <1>0, <1>3, OneHandler DEF Calm, Counted
  <2>3. destroyed[nextObjId] = 0
    BY <1>3, CountTyped DEF Calm, Unborn
  <2> QED BY <1>2, <2>1, <2>2, <2>3 DEF Calm, Counted
<1> QED BY <1>2, <1>7, <1>12, <1>13, <1>14 DEF Calm, Unborn

LEMMA AssignCalm ==
    ASSUME ObjectsInv, Calm, Assign
    PROVE  Calm'
<1>0. DispatchInv /\ CalmStacks /\ Top("io").at = "assign"
  BY DEF ObjectsInv, Calm, Assign, At
<1>1. /\ stack' = [stack EXCEPT !["io"] = <<Send("assign", Top("io").id)>> \o Tail(@)]
      /\ nextObjId' = nextObjId + 1 /\ UNCHANGED <<modules, up, destroyed, ended>>
  BY DEF Assign
<1>2. Send("assign", Top("io").id) \in CalmFrames
  <2>1. Top("io").id \in 0..MaxId
    BY <1>0, IoThread, StackParts DEF Frames
  <2>2. "encrypt" \in Labels /\ "assign" \in Kinds
    BY DEF Labels, Kinds
  <2> QED BY <2>1, <2>2, NewFrame DEF Send, CalmFrames
<1>3. Shape("io")
  BY <1>1, <1>2 DEF Shape
<1>4. CalmStacks' /\ \A id : HasErase(stack["io"], id) => HasErase(stack'["io"], id)
  BY <1>0, <1>3, IoThread, ShapeCalm
<1>5. Fresh' /\ Unborn'
  <2>1. \A i \in DOMAIN modules : modules[i] \in Nat /\ modules[i] <= nextObjId
    <3> TAKE i \in DOMAIN modules
    <3>1. modules[i] \in Id /\ modules[i] \in Nat /\ nextObjId \in Nat
      BY CountTyped
    <3>2. modules[i] < nextObjId \/ modules[i] = nextObjId
      BY <1>0 DEF Calm, Fresh
    <3> QED BY <3>1, <3>2
  <2>2. \A i \in DOMAIN modules : modules[i] < nextObjId + 1
    BY <2>1, CountTyped
  <2>3. Fresh'
    BY <1>1, <2>2 DEF Fresh
  <2>4. \A id \in Id : id >= nextObjId + 1 => id >= nextObjId
    BY CountTyped
  <2> QED BY <1>1, <2>3, <2>4 DEF Calm, Unborn
<1>6. Counted'
  BY <1>1, <1>4 DEF Calm, Counted
<1> QED BY <1>1, <1>4, <1>5, <1>6 DEF Calm

-----------------------------------------------------------------------------
LEMMA CalmInvInit == Init => CalmInv
<1> SUFFICES ASSUME Init PROVE Calm
  BY ObjectsInvInit DEF CalmInv
<1>1. ObjectsInv
  BY ObjectsInvInit
<1> DEFINE f == Frame("select", "io", 0)
           g == Frame("python", "script", 0)
<1>2. f \in CalmFrames /\ f.at = "select" /\ g \in CalmFrames
  BY DispatchAssumption, NewFrame DEF Labels, Kinds, CalmFrames
<1>3. stack["io"] = <<f>> /\ stack["py"] = <<g>>
  BY DEF Init
<1> HIDE DEF f, g
<1>4. CalmStacks
  <2>1. <<f>> \in Seq(CalmFrames) /\ <<g>> \in Seq(CalmFrames)
    BY <1>2
  <2> QED BY <1>3, <2>1 DEF CalmStacks, Threads
<1>5. Distinct(modules) /\ Fresh /\ Unborn /\ Counted
  BY DispatchAssumption DEF Init, Distinct, Fresh, Unborn, Counted
<1> QED BY <1>4, <1>5 DEF Init, Calm

LEMMA CalmInvNext == CalmInv /\ [Next]_vars => CalmInv'
<1> SUFFICES ASSUME CalmInv, [Next]_vars, begun' = 0 PROVE Calm'
  BY ObjectsInvNext DEF CalmInv
<1>0. ObjectsInv /\ begun \in Nat
  BY DEF CalmInv, ObjectsInv, DispatchInv, RestTyped
<1>1. CASE UNCHANGED vars
  BY <1>1 DEF vars, objects, CalmInv, Calm, CalmStacks, Fresh, Unborn, Counted, Top
<1>2. ASSUME NEW t \in Threads, NEW id \in Id, Disconnect(t, id) PROVE FALSE
  BY <1>0, <1>2 DEF Disconnect
<1>3. CASE Next
  <2>1. begun = 0
    BY <1>0, <1>2, <1>3 DEF Next, Get, Run, Yield, Resume, TakeGil, Sending, BeginEncrypt,
       EndEncrypt, LockToSend, Copy, NoChannel, Talk, Talked, Write, Destroy, EraseByRef,
       CallbackReturns, Handling, Touch, Lookup, Use, Ignore, Drop, PushBack, Assign,
       Unmap, Close, EraseByID, Scripting, Discover, CallMethod, Arrival, Declared,
       Received, Unknown, Left, Closed, Begin, objects
  <2>2. Calm
    BY <2>1 DEF CalmInv
  <2>3. ASSUME NEW t \in Threads, EraseByRef(t) PROVE FALSE
    <3>1. Top(t).kind = "disconnect"
      BY <2>3 DEF EraseByRef
    <3> QED BY <1>0, <2>2, <3>1, StackParts DEF ObjectsInv, Calm, CalmFrames
  <2>4. CASE Handling
    BY <1>0, <2>2, <2>4, GoingOnCalm, PushBackCalm, AssignCalm, EraseCalm DEF Handling
  <2>5. ASSUME NEW t \in Threads, Get(t) \/ Yield(t) PROVE Calm'
    BY <1>0, <2>2, <2>5, PythonCalm, GoingOnCalm DEF Get
  <2>6. ASSUME NEW t \in Threads, Run(t) PROVE Calm'
    BY <1>0, <2>2, <2>3, <2>4, <2>6, SendingCalm, DestroyCalm, PythonCalm DEF Run
  <2>7. ASSUME NEW t \in Threads, Scripting(t) PROVE Calm'
    BY <1>0, <1>2, <2>2, <2>7, PythonCalm DEF Scripting
  <2>8. CASE Arrival
    BY <1>0, <2>2, <2>8, ArrivalCalm
  <2> QED BY <1>3, <2>5, <2>6, <2>7, <2>8 DEF Next
<1> QED BY <1>1, <1>3

\* As long as no script calls PyConnect.disconnect the process is not killed by
\* an iterator that dangles, and the script is told of the end of a module once
\* at most.
THEOREM NoDisconnectNoHarm == Spec => []SafeWithoutDisconnect
<1>1. Spec => []CalmInv
  BY CalmInvInit, CalmInvNext, PTL DEF Spec
<1>2. CalmInv => SafeWithoutDisconnect
  BY DEF CalmInv, Calm, Counted, SafeWithoutDisconnect
<1> QED BY <1>1, <1>2, PTL
=============================================================================
