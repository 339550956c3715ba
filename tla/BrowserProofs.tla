--------------------------- MODULE BrowserProofs ---------------------------
(***************************************************************************)
(* What BrowserPage promises, for any number of handlers that wait and of  *)
(* frames that are due, and any set of options.                            *)
(*                                                                         *)
(* Python will see what waits in the order calls, then answers (an answer  *)
(* that is taken becomes the newest call); the page goes on in the order   *)
(* answers, then calls.  The invariants are about what is where in these   *)
(* two orders.                                                             *)
(***************************************************************************)
EXTENDS BrowserPage, TLAPS, SequenceTheorems

Item ==
  [at : {"start", "stop", "reset", "init?", "initialize", "load_file", "run_chunk", "raised",
         "count", "exit_info", "options?", "update_options"},
   why : {"", "button", "loop", "reset", "load"}, opts : Options \union {NoOptions}, res : BOOLEAN]

-----------------------------------------------------------------------------
(* Sequences: what they hold, and in which order                           *)

Items(s) == {s[i] : i \in DOMAIN s}

\* No member of A comes before one of B.
NoneBefore(s, A, B) == \A i, j \in DOMAIN s : i < j => ~(s[i] \in A /\ s[j] \in B)

\* Some member of B comes after each member of A.
FollowedBy(s, A, B) ==
  \A i \in DOMAIN s : s[i] \in A => \E j \in DOMAIN s : i < j /\ s[j] \in B

\* Await: what an element added at the end does to what a sequence holds and
\* to its order.
LEMMA Added ==
  ASSUME NEW S, NEW s \in Seq(S), NEW x \in S
  PROVE  /\ Append(s, x) \in Seq(S)
         /\ Items(Append(s, x)) = Items(s) \union {x}
         /\ \A A, B : /\ NoneBefore(s, A, B) /\ (x \in B => Items(s) \intersect A = {})
                         => NoneBefore(Append(s, x), A, B)
                      /\ (FollowedBy(s, A, B) \/ x \in B) /\ x \notin A
                         => FollowedBy(Append(s, x), A, B)
<1> DEFINE t == Append(s, x)
<1>1. t \in Seq(S) /\ Len(t) = Len(s) + 1 /\ t[Len(s) + 1] = x
  BY AppendProperties
<1>2. DOMAIN t = 1 .. Len(s) + 1 /\ DOMAIN s = 1 .. Len(s) /\ Len(s) \in Nat
  BY <1>1, LenProperties
<1>3. \A i \in DOMAIN s : t[i] = s[i]
  BY AppendProperties, <1>2
<1> HIDE DEF t
<1>4. DOMAIN t = DOMAIN s \union {Len(s) + 1}
  BY <1>2
<1>5. Items(t) = Items(s) \union {x}
  BY <1>1, <1>3, <1>4 DEF Items
<1>6. ASSUME NEW A, NEW B, NoneBefore(s, A, B), x \in B => Items(s) \intersect A = {}
      PROVE  NoneBefore(t, A, B)
  <2> SUFFICES ASSUME NEW i \in DOMAIN t, NEW j \in DOMAIN t, i < j
               PROVE  ~(t[i] \in A /\ t[j] \in B)
    BY DEF NoneBefore
  <2>1. i \in DOMAIN s
    BY <1>2
  <2>2. CASE j \in DOMAIN s
    BY <1>3, <1>6, <2>1, <2>2 DEF NoneBefore
  <2>3. CASE j = Len(s) + 1
    BY <1>1, <1>3, <1>6, <2>1, <2>3 DEF Items
  <2> QED BY <1>4, <2>2, <2>3
<1>7. ASSUME NEW A, NEW B, FollowedBy(s, A, B) \/ x \in B, x \notin A
      PROVE  FollowedBy(t, A, B)
  <2> SUFFICES ASSUME NEW i \in DOMAIN t, t[i] \in A
               PROVE  \E j \in DOMAIN t : i < j /\ t[j] \in B
    BY DEF FollowedBy
  <2>1. i \in DOMAIN s /\ s[i] \in A
    BY <1>1, <1>3, <1>4, <1>7
  <2>2. CASE x \in B
    BY <1>1, <1>2, <2>1, <2>2
  <2>3. CASE FollowedBy(s, A, B)
    <3>1. PICK j \in DOMAIN s : i < j /\ s[j] \in B
      BY <2>1, <2>3 DEF FollowedBy
    <3> QED BY <1>3, <1>4, <3>1
  <2> QED BY <1>7, <2>2, <2>3
<1> QED BY <1>1, <1>5, <1>6, <1>7 DEF t

\* What taking the first element does.
LEMMA Removed ==
  ASSUME NEW S, NEW s \in Seq(S), s # <<>>
  PROVE  /\ Head(s) \in S /\ Tail(s) \in Seq(S)
         /\ Items(s) = {Head(s)} \union Items(Tail(s))
         /\ \A A, B : /\ NoneBefore(s, A, B)
                         => NoneBefore(Tail(s), A, B) /\ (Head(s) \in A => Items(Tail(s)) \intersect B = {})
                      /\ FollowedBy(s, A, B)
                         => FollowedBy(Tail(s), A, B) /\ (Head(s) \in A => Items(Tail(s)) \intersect B # {})
<1> DEFINE t == Tail(s)  h == Head(s)
<1>1. h \in S /\ t \in Seq(S) /\ Len(t) = Len(s) - 1 /\ h = s[1]
  BY HeadTailProperties
<1>2. DOMAIN s = 1 .. Len(s) /\ DOMAIN t = 1 .. Len(t) /\ Len(t) \in Nat /\ Len(s) \in Nat /\ Len(s) # 0
  BY <1>1, LenProperties, EmptySeq
<1>3. \A i \in DOMAIN t : t[i] = s[i + 1]
  BY <1>1, <1>2, HeadTailProperties
<1> HIDE DEF t, h
<1>4. \A i \in DOMAIN t : i + 1 \in DOMAIN s
  BY <1>1, <1>2
<1>5. \A i \in DOMAIN s : i = 1 \/ (i - 1 \in DOMAIN t /\ s[i] = t[i - 1])
  <2> SUFFICES ASSUME NEW i \in DOMAIN s, i # 1 PROVE i - 1 \in DOMAIN t /\ s[i] = t[i - 1]
    OBVIOUS
  <2>1. i - 1 \in DOMAIN t /\ (i - 1) + 1 = i
    BY <1>1, <1>2
  <2> QED BY <1>3, <2>1
<1>6. 1 \in DOMAIN s
  BY <1>2
<1>7. Items(s) = {h} \union Items(t)
  <2>1. Items(s) \subseteq {h} \union Items(t)
    BY <1>1, <1>5 DEF Items
  <2>2. {h} \union Items(t) \subseteq Items(s)
    BY <1>1, <1>3, <1>4, <1>6 DEF Items
  <2> QED BY <2>1, <2>2
<1>8. ASSUME NEW A, NEW B, NoneBefore(s, A, B)
      PROVE  NoneBefore(t, A, B) /\ (h \in A => Items(t) \intersect B = {})
  <2>1. \A i, j \in DOMAIN t : i < j => i + 1 < j + 1
    BY <1>2
  <2>2. NoneBefore(t, A, B)
    BY <1>3, <1>4, <1>8, <2>1 DEF NoneBefore
  <2>3. \A i \in DOMAIN t : 1 < i + 1
    BY <1>2
  <2>4. h \in A => \A i \in DOMAIN t : t[i] \notin B
    BY <1>1, <1>3, <1>4, <1>6, <1>8, <2>3 DEF NoneBefore
  <2> QED BY <2>2, <2>4 DEF Items
<1>9. ASSUME NEW A, NEW B, FollowedBy(s, A, B)
      PROVE  FollowedBy(t, A, B) /\ (h \in A => Items(t) \intersect B # {})
  <2>1. ASSUME NEW i \in DOMAIN s, s[i] \in A
        PROVE  \E k \in DOMAIN t : i - 1 < k /\ t[k] \in B
    <3>1. PICK j \in DOMAIN s : i < j /\ s[j] \in B
      BY <1>9, <2>1 DEF FollowedBy
    <3>2. j # 1 /\ i - 1 < j - 1
      BY <1>2, <3>1
    <3> QED BY <1>5, <3>1, <3>2
  <2>2. \A i \in DOMAIN t : (i + 1) - 1 = i
    BY <1>2
  <2>3. FollowedBy(t, A, B)
    BY <1>3, <1>4, <2>1, <2>2 DEF FollowedBy
  <2>4. h \in A => \E k \in DOMAIN t : t[k] \in B
    BY <1>1, <1>6, <2>1
  <2> QED BY <2>3, <2>4 DEF Items
<1> QED BY <1>1, <1>7, <1>8, <1>9 DEF t, h

-----------------------------------------------------------------------------
(* One sequence after another                                              *)

\* Of c followed by a, none of A comes before one of B, where these are AC
\* and BC as long as they are in c, AA and BA in a.
Ordered(c, a, AC, AA, BC, BA) ==
  /\ NoneBefore(c, AC, BC) /\ NoneBefore(a, AA, BA)
  /\ Items(c) \intersect AC = {} \/ Items(a) \intersect BA = {}

\* The first element is taken.
LEMMA OrderTaken ==
  ASSUME NEW S, NEW c \in Seq(S), NEW a \in Seq(S), c # <<>>,
         NEW AC, NEW AA, NEW BC, NEW BA, Ordered(c, a, AC, AA, BC, BA)
  PROVE  /\ Ordered(Tail(c), a, AC, AA, BC, BA)
         /\ Head(c) \in AC => Items(Tail(c)) \intersect BC = {} /\ Items(a) \intersect BA = {}
<1>1. /\ NoneBefore(Tail(c), AC, BC) /\ (Head(c) \in AC => Items(Tail(c)) \intersect BC = {})
      /\ Items(c) = {Head(c)} \union Items(Tail(c))
  BY Removed DEF Ordered
<1> QED BY <1>1 DEF Ordered

\* An element is added at the end.
LEMMA OrderGiven ==
  ASSUME NEW S, NEW c \in Seq(S), NEW a \in Seq(S), NEW y \in S,
         NEW AC, NEW AA, NEW BC, NEW BA, Ordered(c, a, AC, AA, BC, BA),
         y \in BA => Items(c) \intersect AC = {} /\ Items(a) \intersect AA = {}
  PROVE  Ordered(c, Append(a, y), AC, AA, BC, BA)
<1>1. NoneBefore(Append(a, y), AA, BA) /\ Items(Append(a, y)) = Items(a) \union {y}
  BY Added DEF Ordered
<1> QED BY <1>1 DEF Ordered

\* An element goes from the head of the one to the end of the other, or is
\* put between them, or is taken there.
LEMMA OrderMoved ==
  ASSUME NEW S, NEW c \in Seq(S), NEW a \in Seq(S),
         NEW AC, NEW AA, NEW BC, NEW BA, Ordered(c, a, AC, AA, BC, BA)
  PROVE  /\ a # <<>> => Ordered(c, Tail(a), AC, AA, BC, BA)
         /\ \A x \in S : x \notin AC /\ x \notin BC => Ordered(Append(c, x), a, AC, AA, BC, BA)
         /\ \A x \in S : a # <<>> /\ (x \in AC => Head(a) \in AA) /\ (x \in BC => Head(a) \in BA)
                         => Ordered(Append(c, x), Tail(a), AC, AA, BC, BA)
<1>1. ASSUME a # <<>>
      PROVE  /\ NoneBefore(Tail(a), AA, BA) /\ (Head(a) \in AA => Items(Tail(a)) \intersect BA = {})
             /\ Items(a) = {Head(a)} \union Items(Tail(a))
  BY <1>1, Removed DEF Ordered
<1>2. ASSUME NEW x \in S, x \in BC => Items(c) \intersect AC = {}
      PROVE  NoneBefore(Append(c, x), AC, BC) /\ Items(Append(c, x)) = Items(c) \union {x}
  BY <1>2, Added DEF Ordered
<1>3. a # <<>> => Ordered(c, Tail(a), AC, AA, BC, BA)
  BY <1>1 DEF Ordered
<1>4. ASSUME NEW x \in S, x \notin AC, x \notin BC
      PROVE  Ordered(Append(c, x), a, AC, AA, BC, BA)
  BY <1>2, <1>4 DEF Ordered
<1>5. ASSUME NEW x \in S, a # <<>>, x \in AC => Head(a) \in AA, x \in BC => Head(a) \in BA
      PROVE  Ordered(Append(c, x), Tail(a), AC, AA, BC, BA)
  <2>1. x \in BC => Items(c) \intersect AC = {}
    BY <1>1, <1>5 DEF Ordered
  <2>2. x \in AC => Items(Tail(a)) \intersect BA = {}
    BY <1>1, <1>5
  <2> QED BY <1>1, <1>2, <1>5, <2>1, <2>2 DEF Ordered
<1> QED BY <1>3, <1>4, <1>5

\* Where there is none of A, none comes before one of B.
LEMMA OrderOfNone ==
  ASSUME NEW c, NEW a, NEW AC, NEW AA, NEW BC, NEW BA,
         Items(c) \intersect AC = {}, Items(a) \intersect AA = {}
  PROVE  Ordered(c, a, AC, AA, BC, BA)
BY DEF Ordered, NoneBefore, Items

-----------------------------------------------------------------------------
(* The invariant, whatever is clicked                                      *)

Called(K) == \E x \in Items(calls) : x.at \in K
Told(K, r) == \E x \in Items(answers) : x.at \in K /\ x.res = r
Waits(K) == \E x \in Items(calls) \union Items(answers) : x.at \in K

TypeInv ==
  /\ calls \in Seq(Item) /\ answers \in Seq(Item) /\ frames \in Nat
  /\ ui \in Options
  /\ \A b \in {initialized, file_loaded, running, should_reset_pc, restart_due, isRunning,
               run_enabled, stop_enabled} : b \in BOOLEAN
  /\ label \in {"Run", "Resume"}

\* The page's idea of whether the emulator runs, and Python's.
RunInv ==
  /\ isRunning => frames > 0 \/ Waits({"run_chunk", "raised", "count"})
  /\ running => isRunning \/ Told({"start"}, TRUE) \/ Called({"stop"})
  /\ stop_enabled => isRunning \/ Waits({"stop"})

\* Handlers that will call initialize, and those that will call load_file.
Init_calls == {x \in Item : x.at = "initialize"}
Init_answers == {x \in Item : x.at = "init?" /\ ~x.res}
Load_calls == {x \in Item : x.at = "load_file"}
Load_answers == {x \in Item : x.at \in {"init?", "initialize"} /\ x.res}

NoInit ==
  Items(calls) \intersect Init_calls = {} /\ Items(answers) \intersect Init_answers = {}

\* While Python is not initialized, no load will follow a call of initialize;
\* once it is, none of initialize follows a load; and none follows once a
\* file is loaded.
LoadInv ==
  /\ ~initialized => Ordered(calls, answers, Init_calls, Init_answers, Load_calls, Load_answers)
  /\ initialized => Ordered(calls, answers, Load_calls, Load_answers, Init_calls, Init_answers)
  /\ file_loaded => initialized /\ NoInit

\* A loaded program can be started, or the button is about to be enabled; a
\* load that failed is followed by the one that did not.
ButtonInv ==
  file_loaded =>
    /\ run_enabled \/ isRunning \/ Waits({"stop"}) \/ Told({"load_file"}, TRUE)
    /\ FollowedBy(answers, {x \in Item : x.at \in {"load_file", "initialize"} /\ ~x.res},
                           {x \in Item : x.at = "load_file" /\ x.res})

Inv == TypeInv /\ RunInv /\ LoadInv /\ ButtonInv /\ (should_reset_pc => restart_due)

\* InFlight: a call waits to be served, or a handler for its answer.
LEMMA InFlightIs == \A at : InFlight(at) <=> Waits({at})
BY DEF InFlight, Waits, Items

\* A call that is made is added to those that wait.
LEMMA Awaited ==
  ASSUME TypeInv, NEW x \in Item, calls' = Append(calls, x)
  PROVE  /\ calls' \in Seq(Item)
         /\ Items(calls') = Items(calls) \union {x} /\ Items(calls)' = Items(calls')
         /\ \A K : Called(K)' <=> Called(K) \/ x.at \in K
<1>1. calls' \in Seq(Item) /\ Items(calls') = Items(calls) \union {x}
  BY Added DEF TypeInv
<1>2. Items(calls)' = Items(calls')
  BY DEF Items
<1> QED BY <1>1, <1>2 DEF Called

\* What stopEmulation does at once: it calls stop, or goes on with what
\* follows.
AfterCall(why) ==
  \/ why = "button" /\ calls' = calls
  \/ why = "loop" /\ calls' = Append(calls, Call("exit_info", "", NoOptions))
  \/ why = "reset" /\ calls' = Append(calls, Call("reset", "", NoOptions))
  \/ why = "load" /\ calls' = Append(calls, Call("init?", "", ui))

\* AfterStop, stopEmulation: likewise.
LEMMA StoppingIs ==
  ASSUME NEW why
  PROVE  /\ AfterStop(why) => AfterCall(why)
         /\ Stopping(why, AfterStop(why)) =>
              \/ isRunning /\ isRunning' = FALSE /\ calls' = Append(calls, Call("stop", why, NoOptions))
              \/ ~isRunning /\ isRunning' = isRunning /\ AfterCall(why)
BY DEF AfterStop, AfterCall, Stopping, Await

\* Every click, file and frame: at most one call is made, of neither
\* initialize nor load_file, and Python does nothing.
LEMMA UserShape ==
  ASSUME TypeInv, User \/ loop_begins
  PROVE  /\ TypeInv' /\ UNCHANGED <<pyVars, answers, run_enabled, stop_enabled, label>>
         /\ isRunning' = isRunning \/ (isRunning /\ ~isRunning')
         /\ \/ calls' = calls /\ isRunning' = isRunning /\ (loop_begins => ~isRunning)
            \/ \E x \in Item : /\ calls' = Append(calls, x)
                               /\ x.at \in {"start", "stop", "reset", "init?", "options?", "run_chunk"}
                               /\ isRunning /\ ~isRunning' => x.at = "stop"
                               /\ loop_begins => x.at = "run_chunk"
         /\ ~loop_begins => frames' = frames
<1> USE DEF buttons
<1>0. ui \in Options \union {NoOptions} /\ isRunning \in BOOLEAN /\ frames \in Nat
  BY DEF TypeInv
<1>1. UNCHANGED <<pyVars, answers, run_enabled, stop_enabled, label>>
  BY DEF User, loop_begins, click_run, click_stop, click_reset, pick_file, change_options
<1>2. ui' \in Options
  BY DEF User, loop_begins, click_run, click_stop, click_reset, pick_file, change_options, TypeInv
<1>3. ASSUME NEW why \in {"button", "reset", "load"}, Stopping(why, AfterStop(why))
      PROVE  \/ calls' = calls /\ isRunning' = isRunning
             \/ \E x \in Item : /\ calls' = Append(calls, x)
                                /\ x.at \in {"stop", "reset", "init?"}
                                /\ isRunning /\ ~isRunning' => x.at = "stop"
  <2>1. CASE isRunning /\ isRunning' = FALSE /\ calls' = Append(calls, Call("stop", why, NoOptions))
    <3> DEFINE x == Call("stop", why, NoOptions)
    <3>1. x \in Item /\ x.at = "stop"
      BY DEF Call, Item
    <3> HIDE DEF x
    <3> QED BY <2>1, <3>1 DEF x
  <2>2. CASE ~isRunning /\ isRunning' = isRunning /\ AfterCall(why)
    <3> DEFINE x == IF why = "reset" THEN Call("reset", "", NoOptions) ELSE Call("init?", "", ui)
    <3>1. x \in Item /\ x.at \in {"reset", "init?"}
      BY <1>0 DEF Call, Item
    <3>2. why = "button" \/ calls' = Append(calls, x)
      BY <2>2 DEF AfterCall
    <3>3. why = "button" => calls' = calls
      BY <2>2 DEF AfterCall
    <3> HIDE DEF x
    <3> QED BY <2>2, <3>1, <3>2, <3>3
  <2> QED BY <1>3, <2>1, <2>2, StoppingIs
<1>4. /\ \/ calls' = calls /\ isRunning' = isRunning /\ (loop_begins => ~isRunning)
         \/ \E x \in Item : /\ calls' = Append(calls, x)
                            /\ x.at \in {"start", "stop", "reset", "init?", "options?", "run_chunk"}
                            /\ isRunning /\ ~isRunning' => x.at = "stop"
                            /\ loop_begins => x.at = "run_chunk"
  <2>1. CASE loop_begins
    <3> DEFINE x == Call("run_chunk", "", NoOptions)
    <3>1. x \in Item /\ x.at = "run_chunk"
      BY DEF Call, Item
    <3>2. ((calls' = calls /\ ~isRunning) \/ calls' = Append(calls, x)) /\ isRunning' = isRunning
      BY <2>1 DEF loop_begins, Await
    <3> HIDE DEF x
    <3> QED BY <3>1, <3>2
  <2>2. CASE click_run /\ ~loop_begins
    <3> DEFINE x == Call("start", "", NoOptions)
    <3>1. x \in Item /\ x.at = "start"
      BY DEF Call, Item
    <3>2. calls' = Append(calls, x) /\ isRunning' = isRunning
      BY <2>2 DEF click_run, Await
    <3> HIDE DEF x
    <3> QED BY <2>2, <3>1, <3>2
  <2>3. CASE (click_stop \/ click_reset \/ pick_file) /\ ~loop_begins
    BY <2>3, <1>3 DEF click_stop, click_reset, pick_file
  <2>4. ASSUME NEW o \in Options, change_options(o), ~loop_begins
        PROVE  \/ calls' = calls /\ isRunning' = isRunning
               \/ \E x \in Item : calls' = Append(calls, x) /\ x.at = "options?" /\ isRunning' = isRunning
    <3> DEFINE x == Call("options?", "", o)
    <3>1. x \in Item /\ x.at = "options?"
      BY DEF Call, Item
    <3>2. (calls' = calls \/ calls' = Append(calls, x)) /\ isRunning' = isRunning
      BY <2>4 DEF change_options, Await
    <3> HIDE DEF x
    <3> QED BY <3>1, <3>2
  <2> QED BY <2>1, <2>2, <2>3, <2>4 DEF User
<1>5. isRunning' \in BOOLEAN /\ (isRunning' = isRunning \/ (isRunning /\ ~isRunning'))
  BY <1>0, StoppingIs
  DEF User, loop_begins, click_run, click_stop, click_reset, pick_file, change_options
<1>6. calls' \in Seq(Item)
  BY <1>4, Awaited DEF TypeInv
<1>7. frames' \in Nat /\ (~loop_begins => frames' = frames)
  <2>1. User => frames' = frames
    BY DEF User, click_run, click_stop, click_reset, pick_file, change_options
  <2>2. loop_begins => frames > 0 /\ frames' = frames - 1
    BY DEF loop_begins
  <2>3. loop_begins => frames' \in Nat
    BY <1>0, <2>2
  <2> QED BY <1>0, <2>1, <2>3
<1>8. TypeInv'
  BY <1>1, <1>2, <1>5, <1>6, <1>7 DEF TypeInv, pyVars
<1> QED BY <1>1, <1>4, <1>5, <1>7, <1>8

\* The user's steps and frames keep the invariant.
LEMMA UserInv ==
  ASSUME Inv, User \/ loop_begins
  PROVE  Inv'
<1>0. TypeInv /\ RunInv /\ LoadInv /\ ButtonInv
  BY DEF Inv
<1>1. /\ TypeInv' /\ UNCHANGED <<pyVars, answers, run_enabled, stop_enabled, label>>
      /\ isRunning' = isRunning \/ (isRunning /\ ~isRunning')
      /\ ~loop_begins => frames' = frames
  BY <1>0, UserShape
<1>2. UNCHANGED <<initialized, file_loaded, running, should_reset_pc, restart_due>>
  BY <1>1 DEF pyVars
<1>3. Items(answers)' = Items(answers) /\ \A K, r : Told(K, r)' <=> Told(K, r)
  BY <1>1 DEF Items, Told
<1>4. calls \in Seq(Item) /\ answers \in Seq(Item) /\ frames \in Nat
  BY <1>0 DEF TypeInv
<1>5. CASE calls' = calls /\ isRunning' = isRunning /\ (loop_begins => ~isRunning)
  <2>1. /\ Items(calls)' = Items(calls)
        /\ \A K : (Called(K)' <=> Called(K)) /\ (Waits(K)' <=> Waits(K))
    BY <1>3, <1>5 DEF Items, Called, Waits
  <2>2. RunInv'
    BY <1>0, <1>1, <1>2, <1>3, <1>5, <2>1 DEF RunInv
  <2>3. LoadInv'
    BY <1>0, <1>1, <1>2, <1>3, <1>5, <2>1 DEF LoadInv, NoInit
  <2>4. ButtonInv'
    BY <1>0, <1>1, <1>2, <1>3, <1>5, <2>1 DEF ButtonInv
  <2> QED BY <1>1, <1>2, <2>2, <2>3, <2>4 DEF Inv
<1>6. ASSUME NEW x \in Item, calls' = Append(calls, x),
             x.at \in {"start", "stop", "reset", "init?", "options?", "run_chunk"},
             isRunning /\ ~isRunning' => x.at = "stop", loop_begins => x.at = "run_chunk"
      PROVE  Inv'
  <2>1. /\ Items(calls)' = Items(calls) \union {x}
        /\ \A K : Called(K)' <=> Called(K) \/ x.at \in K
    BY <1>0, <1>6, Awaited
  <2>2. \A K : Waits(K)' <=> Waits(K) \/ x.at \in K
    BY <1>3, <2>1 DEF Waits
  <2>3. RunInv'
    <3>1. isRunning' => (frames > 0 \/ Waits({"run_chunk", "raised", "count"}))'
      BY <1>0, <1>1, <1>6, <2>2 DEF RunInv
    <3>2. running' => (isRunning \/ Told({"start"}, TRUE) \/ Called({"stop"}))'
      BY <1>0, <1>1, <1>2, <1>3, <1>6, <2>1 DEF RunInv
    <3>3. stop_enabled' => (isRunning \/ Waits({"stop"}))'
      BY <1>0, <1>1, <1>6, <2>2 DEF RunInv
    <3> QED BY <3>1, <3>2, <3>3 DEF RunInv
  <2>4. x \notin Init_calls /\ x \notin Load_calls
    BY <1>6 DEF Init_calls, Load_calls
  <2>5. LoadInv'
    <3>1. ASSUME NEW AC, NEW AA, NEW BC, NEW BA, x \notin AC, x \notin BC,
                 Ordered(calls, answers, AC, AA, BC, BA)
          PROVE  Ordered(calls', answers', AC, AA, BC, BA)
      BY <1>1, <1>4, <1>6, <3>1, OrderMoved
    <3>2. NoInit => NoInit'
      BY <1>3, <2>1, <2>4 DEF NoInit, Init_calls, Init_answers
    <3> QED BY <1>0, <1>2, <2>4, <3>1, <3>2 DEF LoadInv, Init_calls, Init_answers, Load_calls, Load_answers
  <2>6. ButtonInv'
    BY <1>0, <1>1, <1>2, <1>3, <1>6, <2>2 DEF ButtonInv
  <2> QED BY <1>0, <1>1, <1>2, <2>3, <2>5, <2>6 DEF Inv
<1> QED BY <1>0, <1>5, <1>6, UserShape

\* What Python does with the oldest call, when it answers y.
Served(y) ==
  LET at == Head(calls).at IN
  \/ /\ y.at = at
     /\ \/ at = "start" /\ start(y.res)
        \/ at = "stop" /\ stop(y.res)
        \/ at = "reset" /\ reset(js_options, y.res)
        \/ at = "initialize" /\ initialize(js_options, y.res)
        \/ at = "load_file" /\ load_file(js_options, y.res)
        \/ at = "run_chunk" /\ run_chunk(y.res)
        \/ at = "update_options" /\ update_options(js_options, y.res)
        \/ at \in {"init?", "options?"} /\ query(y.res)
        \/ at = "count" /\ y.res = Head(calls).res /\ UNCHANGED pyVars
        \/ at = "exit_info" /\ y.res /\ UNCHANGED pyVars
  \/ /\ y.at = "raised" /\ at = "run_chunk"
     /\ running /\ UNCHANGED pyVars

\* python: the oldest call is answered, and the answer is the newest.
LEMMA PythonShape ==
  ASSUME TypeInv, python
  PROVE  /\ calls # <<>> /\ Head(calls) \in Item /\ calls' = Tail(calls) /\ UNCHANGED jsVars
         /\ Items(calls) = {Head(calls)} \union Items(calls)'
         /\ \E y \in Item : /\ answers' = Append(answers, y) /\ y.why = Head(calls).why
                            /\ Items(answers)' = Items(answers) \union {y}
                            /\ Served(y)
<1> DEFINE c == Head(calls)
<1>1. /\ calls # <<>> /\ c \in Item /\ calls' = Tail(calls) /\ UNCHANGED jsVars
      /\ Items(calls) = {c} \union Items(Tail(calls))
  BY Removed DEF python, TypeInv
<1>2. Items(calls)' = Items(Tail(calls))
  BY <1>1 DEF Items
<1> HIDE DEF c
<1>3. ASSUME NEW y \in Item, answers' = Append(answers, y)
      PROVE  Items(answers)' = Items(answers) \union {y}
  <2>1. Items(Append(answers, y)) = Items(answers) \union {y}
    BY Added DEF TypeInv
  <2> QED BY <1>3, <2>1 DEF Items
<1>4. CASE \E r \in BOOLEAN :
             /\ answers' = Append(answers, [c EXCEPT !.res = r])
             /\ \/ c.at = "start" /\ start(r)
                \/ c.at = "stop" /\ stop(r)
                \/ c.at = "reset" /\ reset(js_options, r)
                \/ c.at = "initialize" /\ initialize(js_options, r)
                \/ c.at = "load_file" /\ load_file(js_options, r)
                \/ c.at = "run_chunk" /\ run_chunk(r)
                \/ c.at = "update_options" /\ update_options(js_options, r)
                \/ c.at \in {"init?", "options?"} /\ query(r)
                \/ c.at = "count" /\ r = c.res /\ UNCHANGED pyVars
                \/ c.at = "exit_info" /\ r /\ UNCHANGED pyVars
  <2>1. PICK r \in BOOLEAN : 
             /\ answers' = Append(answers, [c EXCEPT !.res = r])
             /\ \/ c.at = "start" /\ start(r)
                \/ c.at = "stop" /\ stop(r)
                \/ c.at = "reset" /\ reset(js_options, r)
                \/ c.at = "initialize" /\ initialize(js_options, r)
                \/ c.at = "load_file" /\ load_file(js_options, r)
                \/ c.at = "run_chunk" /\ run_chunk(r)
                \/ c.at = "update_options" /\ update_options(js_options, r)
                \/ c.at \in {"init?", "options?"} /\ query(r)
                \/ c.at = "count" /\ r = c.res /\ UNCHANGED pyVars
                \/ c.at = "exit_info" /\ r /\ UNCHANGED pyVars
    BY <1>4
  <2> DEFINE y == [c EXCEPT !.res = r]
  <2>2. y \in Item /\ y.at = c.at /\ y.res = r /\ y.why = c.why
    BY <1>1 DEF Item
  <2> HIDE DEF y
  <2>3. Served(y)
    BY <2>1, <2>2 DEF Served, c
  <2> QED BY <1>1, <1>2, <1>3, <2>1, <2>2, <2>3 DEF y, c
<1>5. CASE /\ c.at = "run_chunk" /\ running
           /\ answers' = Append(answers, [c EXCEPT !.at = "raised"])
           /\ UNCHANGED pyVars
  <2> DEFINE y == [c EXCEPT !.at = "raised"]
  <2>2. y \in Item /\ y.at = "raised" /\ y.why = c.why
    BY <1>1 DEF Item
  <2> HIDE DEF y
  <2>3. Served(y)
    BY <1>5, <2>2 DEF Served, c
  <2> QED BY <1>1, <1>2, <1>3, <1>5, <2>2, <2>3 DEF y, c
<1> QED BY <1>4, <1>5 DEF python, c

\* browser_entry.py: what each function may do to the flags that the page
\* depends on.
LEMMA PythonFlags ==
  ASSUME TypeInv, NEW y \in Item, Served(y)
  PROVE  /\ initialized' \in BOOLEAN /\ file_loaded' \in BOOLEAN /\ running' \in BOOLEAN
         /\ should_reset_pc' \in BOOLEAN /\ restart_due' \in BOOLEAN
         /\ running' => running \/ (y.at = "start" /\ y.res)
         /\ y.at = "stop" => ~running'
         /\ file_loaded' => file_loaded \/ (y.at = "load_file" /\ y.res)
         /\ y.at = "load_file" /\ ~y.res => ~file_loaded' \/ (~initialized /\ UNCHANGED pyVars)
         /\ (should_reset_pc => restart_due) => (should_reset_pc' => restart_due')
         /\ y.at = Head(calls).at \/ (y.at = "raised" /\ Head(calls).at = "run_chunk")
<1>0. /\ y.res \in BOOLEAN
      /\ initialized \in BOOLEAN /\ file_loaded \in BOOLEAN /\ running \in BOOLEAN
      /\ should_reset_pc \in BOOLEAN /\ restart_due \in BOOLEAN
  BY DEF Item, TypeInv
<1>10. y.at = Head(calls).at \/ (y.at = "raised" /\ Head(calls).at = "run_chunk")
  BY DEF Served
<1> USE <1>10 DEF pyVars, machineVars
<1>1. CASE y.at = "start" /\ start(y.res)
  <2>1. /\ initialized' \in BOOLEAN /\ file_loaded' \in BOOLEAN /\ running' \in BOOLEAN
        /\ should_reset_pc' \in BOOLEAN /\ restart_due' \in BOOLEAN
    BY <1>0, <1>1 DEF start
  <2>2. running' => running \/ (y.at = "start" /\ y.res)
    BY <1>0, <1>1 DEF start
  <2>3. file_loaded' => file_loaded \/ (y.at = "load_file" /\ y.res)
    BY <1>0, <1>1 DEF start
  <2>4. y.at = "load_file" /\ ~y.res => ~file_loaded' \/ (~initialized /\ UNCHANGED pyVars)
    BY <1>0, <1>1 DEF start
  <2>5. (should_reset_pc => restart_due) => (should_reset_pc' => restart_due')
    BY <1>0, <1>1 DEF start
  <2> QED BY <1>1, <2>1, <2>2, <2>3, <2>4, <2>5
<1>2. CASE y.at = "stop" /\ stop(y.res)
  BY <1>0, <1>2 DEF stop
<1>3. CASE y.at = "reset" /\ reset(js_options, y.res)
  <2>1. /\ initialized' \in BOOLEAN /\ file_loaded' \in BOOLEAN /\ running' \in BOOLEAN
        /\ should_reset_pc' \in BOOLEAN /\ restart_due' \in BOOLEAN
    BY <1>0, <1>3 DEF reset, Rebuilt, Loaded
  <2>2. running' => running \/ (y.at = "start" /\ y.res)
    BY <1>0, <1>3 DEF reset, Rebuilt, Loaded
  <2>3. file_loaded' => file_loaded \/ (y.at = "load_file" /\ y.res)
    BY <1>0, <1>3 DEF reset, Rebuilt, Loaded
  <2>4. y.at = "load_file" /\ ~y.res => ~file_loaded' \/ (~initialized /\ UNCHANGED pyVars)
    BY <1>0, <1>3 DEF reset, Rebuilt, Loaded
  <2>5. (should_reset_pc => restart_due) => (should_reset_pc' => restart_due')
    BY <1>0, <1>3 DEF reset, Rebuilt, Loaded
  <2> QED BY <1>3, <2>1, <2>2, <2>3, <2>4, <2>5
<1>4. CASE y.at = "initialize" /\ initialize(js_options, y.res)
  BY <1>0, <1>4 DEF initialize
<1>5. CASE y.at = "load_file" /\ load_file(js_options, y.res)
  <2>1. /\ initialized' \in BOOLEAN /\ file_loaded' \in BOOLEAN /\ running' \in BOOLEAN
        /\ should_reset_pc' \in BOOLEAN /\ restart_due' \in BOOLEAN
    BY <1>0, <1>5 DEF load_file, Rebuilt, Loaded
  <2>2. running' => running \/ (y.at = "start" /\ y.res)
    BY <1>0, <1>5 DEF load_file, Rebuilt, Loaded
  <2>3. file_loaded' => file_loaded \/ (y.at = "load_file" /\ y.res)
    BY <1>0, <1>5 DEF load_file, Rebuilt, Loaded
  <2>4. y.at = "load_file" /\ ~y.res => ~file_loaded' \/ (~initialized /\ UNCHANGED pyVars)
    BY <1>0, <1>5 DEF load_file, Rebuilt, Loaded
  <2>5. (should_reset_pc => restart_due) => (should_reset_pc' => restart_due')
    BY <1>0, <1>5 DEF load_file, Rebuilt, Loaded
  <2> QED BY <1>5, <2>1, <2>2, <2>3, <2>4, <2>5
<1>6. CASE y.at = "run_chunk" /\ run_chunk(y.res)
  <2>1. /\ initialized' \in BOOLEAN /\ file_loaded' \in BOOLEAN /\ running' \in BOOLEAN
        /\ should_reset_pc' \in BOOLEAN /\ restart_due' \in BOOLEAN
    BY <1>0, <1>6 DEF run_chunk
  <2>2. running' => running \/ (y.at = "start" /\ y.res)
    BY <1>0, <1>6 DEF run_chunk
  <2>3. file_loaded' => file_loaded \/ (y.at = "load_file" /\ y.res)
    BY <1>0, <1>6 DEF run_chunk
  <2>4. y.at = "load_file" /\ ~y.res => ~file_loaded' \/ (~initialized /\ UNCHANGED pyVars)
    BY <1>0, <1>6 DEF run_chunk
  <2>5. (should_reset_pc => restart_due) => (should_reset_pc' => restart_due')
    BY <1>0, <1>6 DEF run_chunk
  <2> QED BY <1>6, <2>1, <2>2, <2>3, <2>4, <2>5
<1>7. CASE y.at = "update_options" /\ update_options(js_options, y.res)
  BY <1>0, <1>7 DEF update_options
<1>8. CASE y.at \in {"init?", "options?"} /\ query(y.res)
  BY <1>0, <1>8 DEF query
<1>9. CASE y.at \in {"count", "exit_info", "raised"} /\ UNCHANGED pyVars
  BY <1>0, <1>9
<1> QED BY <1>1, <1>2, <1>3, <1>4, <1>5, <1>6, <1>7, <1>8, <1>9 DEF Served

\* initialize, load_file, reset: which of them may change whether Python is
\* initialized or a file loaded, and to what.
LEMMA PythonLoads ==
  ASSUME TypeInv, NEW y \in Item, Served(y)
  PROVE  \/ y.at = "initialize" /\ file_loaded' = file_loaded /\ (y.res => initialized')
            /\ (~y.res => initialized' = initialized)
         \/ y.at = "load_file" /\ ~initialized /\ ~y.res /\ UNCHANGED <<initialized, file_loaded>>
         \/ y.at = "load_file" /\ initialized /\ (y.res => file_loaded' /\ initialized')
            /\ (~y.res => ~file_loaded')
         \/ y.at = "reset" /\ file_loaded /\ (file_loaded' => initialized')
         \/ /\ y.at \notin {"initialize", "load_file"}
            /\ y.at = "init?" => y.res = initialized
            /\ UNCHANGED <<initialized, file_loaded>>
<1>0. /\ y.res \in BOOLEAN
      /\ initialized \in BOOLEAN /\ file_loaded \in BOOLEAN
  BY DEF Item, TypeInv
<1> USE DEF pyVars
<1>1. CASE y.at = "initialize" /\ initialize(js_options, y.res)
  BY <1>0, <1>1 DEF initialize
<1>2. CASE y.at = "load_file" /\ load_file(js_options, y.res)
  BY <1>0, <1>2 DEF load_file, Rebuilt, Loaded
<1>3. CASE y.at = "reset" /\ reset(js_options, y.res)
  BY <1>0, <1>3 DEF reset, Rebuilt, Loaded
<1>4. CASE y.at \in {"start", "stop", "run_chunk", "update_options", "options?", "count", "exit_info", "raised"}
  BY <1>0, <1>4 DEF Served, start, stop, run_chunk, update_options, query
<1>5. CASE y.at = "init?" /\ query(y.res)
  BY <1>0, <1>5 DEF query
<1> QED BY <1>1, <1>2, <1>3, <1>4, <1>5 DEF Served, Item

\* Python keeps the invariant.
LEMMA PythonInv ==
  ASSUME Inv, python
  PROVE  Inv'
<1> DEFINE c == Head(calls)
<1>0. TypeInv /\ RunInv /\ LoadInv /\ ButtonInv /\ (should_reset_pc => restart_due)
  BY DEF Inv
<1>1. /\ calls # <<>> /\ c \in Item /\ calls' = Tail(calls) /\ UNCHANGED jsVars
      /\ Items(calls) = {c} \union Items(calls)'
  BY <1>0, PythonShape
<1>2. PICK y \in Item : /\ answers' = Append(answers, y) /\ y.why = c.why
                        /\ Items(answers)' = Items(answers) \union {y}
                        /\ Served(y)
  BY <1>0, PythonShape
<1>3. UNCHANGED <<ui, isRunning, run_enabled, stop_enabled, label, frames>>
  BY <1>1 DEF jsVars, buttons
<1>4. calls \in Seq(Item) /\ answers \in Seq(Item) /\ calls' \in Seq(Item) /\ answers' \in Seq(Item)
  BY <1>0, <1>1, <1>2, Removed, Added DEF TypeInv
<1>5. /\ initialized' \in BOOLEAN /\ file_loaded' \in BOOLEAN /\ running' \in BOOLEAN
      /\ should_reset_pc' \in BOOLEAN /\ restart_due' \in BOOLEAN
      /\ running' => running \/ (y.at = "start" /\ y.res)
      /\ y.at = "stop" => ~running'
      /\ file_loaded' => file_loaded \/ (y.at = "load_file" /\ y.res)
      /\ y.at = "load_file" /\ ~y.res => ~file_loaded' \/ (~initialized /\ UNCHANGED pyVars)
      /\ should_reset_pc' => restart_due'
      /\ y.at = c.at \/ (y.at = "raised" /\ c.at = "run_chunk")
  BY <1>0, <1>2, PythonFlags
<1> HIDE DEF c
<1>6. TypeInv'
  BY <1>0, <1>3, <1>4, <1>5 DEF TypeInv
<1>7. /\ \A K : Called(K) => Called(K)' \/ c.at \in K
      /\ \A K : Waits(K) => Waits(K)' \/ (c.at \in K /\ y.at \notin K)
      /\ \A K, r : Told(K, r)' <=> Told(K, r) \/ (y.at \in K /\ y.res = r)
  BY <1>1, <1>2, <1>5 DEF Called, Waits, Told
<1>8. y.res \in BOOLEAN
  BY DEF Item
<1>9. RunInv'
  <2>1. isRunning' => (frames > 0 \/ Waits({"run_chunk", "raised", "count"}))'
    BY <1>0, <1>3, <1>5, <1>7 DEF RunInv
  <2>2. running' => (isRunning \/ Told({"start"}, TRUE) \/ Called({"stop"}))'
    <3> SUFFICES ASSUME running' PROVE (isRunning \/ Told({"start"}, TRUE) \/ Called({"stop"}))'
      OBVIOUS
    <3>1. CASE y.at = "start" /\ y.res
      BY <1>7, <1>8, <3>1
    <3>2. CASE running
      BY <1>0, <1>3, <1>5, <1>7, <3>2 DEF RunInv
    <3> QED BY <1>5, <3>1, <3>2
  <2>3. stop_enabled' => (isRunning \/ Waits({"stop"}))'
    BY <1>0, <1>3, <1>5, <1>7 DEF RunInv
  <2> QED BY <2>1, <2>2, <2>3 DEF RunInv
<1>10. LoadInv'
  <2>1. ASSUME NEW AC, NEW AA, NEW BC, NEW BA, y \notin BA, Ordered(calls, answers, AC, AA, BC, BA)
        PROVE  Ordered(calls', answers', AC, AA, BC, BA)
    <3>1. Ordered(calls', answers, AC, AA, BC, BA)
      BY <1>1, <1>4, <2>1, OrderTaken
    <3> QED BY <1>2, <1>4, <2>1, <3>1, OrderGiven
  <2>2. ASSUME NEW AC, NEW AA, NEW BC, NEW BA, c \in AC, Ordered(calls, answers, AC, AA, BC, BA)
        PROVE  Items(calls') \intersect BC = {} /\ Items(answers) \intersect BA = {}
    BY <1>1, <1>4, <2>2, OrderTaken DEF c
  <2>3. ASSUME NEW AC, NEW AA, NEW BC, NEW BA, y \notin BA,
               Items(calls') \intersect AC = {}, Items(answers) \intersect AA = {}
        PROVE  Ordered(calls', answers', AC, AA, BC, BA)
    <3>1. Ordered(calls', answers, AC, AA, BC, BA)
      BY <2>3, OrderOfNone
    <3> QED BY <1>2, <1>4, <2>3, <3>1, OrderGiven
  <2>4. Items(calls)' = Items(calls') /\ Items(answers)' = Items(answers')
    BY DEF Items
  <2> DEFINE IC == Init_calls  IA == Init_answers  LC == Load_calls  LA == Load_answers
  <2>5. /\ c.at = "initialize" => c \in IC
        /\ c.at = "load_file" => c \in LC
        /\ y \in IA <=> y.at = "init?" /\ ~y.res
        /\ y \in LA <=> y.at \in {"init?", "initialize"} /\ y.res
    BY <1>1 DEF Init_calls, Load_calls, Init_answers, Load_answers
  <2> HIDE DEF IC, IA, LC, LA
  <2>6. SUFFICES /\ ~initialized' => Ordered(calls', answers', IC, IA, LC, LA)
                 /\ initialized' => Ordered(calls', answers', LC, LA, IC, IA)
                 /\ file_loaded' => /\ initialized'
                                    /\ Items(calls') \intersect IC = {} /\ Items(answers') \intersect IA = {}
    BY <2>4 DEF LoadInv, NoInit, IC, IA, LC, LA, Init_calls, Init_answers, Load_calls, Load_answers
  <2>7. /\ ~initialized => Ordered(calls, answers, IC, IA, LC, LA)
        /\ initialized => Ordered(calls, answers, LC, LA, IC, IA)
        /\ file_loaded => /\ initialized
                          /\ Items(calls) \intersect IC = {} /\ Items(answers) \intersect IA = {}
    BY <1>0 DEF LoadInv, NoInit, IC, IA, LC, LA
  <2>8. Items(calls) = {c} \union Items(calls') /\ Items(answers') = Items(answers) \union {y}
    BY <1>1, <1>2, <2>4
  <2>9. CASE /\ y.at = "initialize" /\ file_loaded' = file_loaded /\ (y.res => initialized')
             /\ ~y.res => initialized' = initialized
    <3>1. c \in IC /\ y \notin IA /\ (y \in LA <=> y.res) /\ ~file_loaded
      BY <1>5, <2>5, <2>7, <2>8, <2>9
    <3>2. CASE initialized'
      <4>1. CASE initialized
        BY <2>1, <2>7, <3>1, <3>2, <2>9, <4>1
      <4>2. CASE ~initialized
        BY <2>2, <2>3, <2>7, <3>1, <3>2, <2>9, <4>2
      <4> QED BY <4>1, <4>2
    <3>3. CASE ~initialized'
      <4>1. ~initialized /\ y \notin LA
        BY <2>9, <3>1, <3>3
      <4> QED BY <2>1, <2>7, <2>9, <3>1, <3>3, <4>1
    <3> QED BY <3>2, <3>3
  <2>10. CASE y.at = "load_file" /\ ~initialized /\ ~y.res /\ UNCHANGED <<initialized, file_loaded>>
    BY <2>1, <2>5, <2>7, <2>10
  <2>11. CASE /\ y.at = "load_file" /\ initialized /\ (y.res => file_loaded' /\ initialized')
              /\ ~y.res => ~file_loaded'
    <3>1. y \notin IA /\ y \notin LA /\ c \in LC
      BY <1>5, <2>5, <2>11
    <3>2. Items(calls') \intersect IC = {} /\ Items(answers) \intersect IA = {}
      BY <2>2, <2>7, <2>11, <3>1
    <3>3. Ordered(calls', answers', IC, IA, LC, LA)
      BY <2>3, <3>1, <3>2
    <3>4. Ordered(calls', answers', LC, LA, IC, IA)
      BY <2>1, <2>7, <2>11, <3>1
    <3> QED BY <1>8, <2>8, <2>11, <3>1, <3>2, <3>3, <3>4
  <2>12. CASE y.at = "reset" /\ file_loaded /\ (file_loaded' => initialized')
    <3>1. y \notin IA /\ y \notin LA
      BY <2>5, <2>12
    <3>2. Items(calls') \intersect IC = {} /\ Items(answers) \intersect IA = {}
      BY <2>7, <2>8, <2>12
    <3>3. Ordered(calls', answers', IC, IA, LC, LA)
      BY <2>3, <3>1, <3>2
    <3>4. Ordered(calls', answers', LC, LA, IC, IA)
      BY <2>1, <2>7, <2>12, <3>1
    <3> QED BY <2>8, <2>12, <3>1, <3>2, <3>3, <3>4
  <2>13. CASE /\ y.at \notin {"initialize", "load_file"}
              /\ y.at = "init?" => y.res = initialized
              /\ UNCHANGED <<initialized, file_loaded>>
    <3>1. (initialized => y \notin IA) /\ (~initialized => y \notin LA)
      BY <1>8, <2>5, <2>13
    <3>2. initialized => Ordered(calls', answers', LC, LA, IC, IA)
      BY <2>1, <2>7, <3>1
    <3>3. ~initialized => Ordered(calls', answers', IC, IA, LC, LA)
      BY <2>1, <2>7, <3>1
    <3> QED BY <2>7, <2>8, <2>13, <3>1, <3>2, <3>3
  <2> QED BY <1>0, <1>2, <2>9, <2>10, <2>11, <2>12, <2>13, PythonLoads
<1>11. ButtonInv'
  <2> SUFFICES ASSUME file_loaded' PROVE ButtonInv'
    BY DEF ButtonInv
  <2> DEFINE Bad == {x \in Item : x.at \in {"load_file", "initialize"} /\ ~x.res}
             Good == {x \in Item : x.at = "load_file" /\ x.res}
  <2>1. CASE y.at = "load_file" /\ y.res
    <3>1. y \notin Bad /\ y \in Good
      BY <2>1
    <3>2. FollowedBy(answers', Bad, Good)
      <4> HIDE DEF Bad, Good
      <4> QED BY <1>2, <1>4, <3>1, Added
    <3>3. Told({"load_file"}, TRUE)'
      BY <1>7, <1>8, <2>1
    <3> QED BY <3>2, <3>3 DEF ButtonInv
  <2>2. CASE ~(y.at = "load_file" /\ y.res)
    <3>1. file_loaded
      BY <1>5, <2>2
    <3>2. y.at # "initialize"
      <4>1. c \notin Init_calls
        BY <1>0, <1>1, <3>1 DEF LoadInv, NoInit
      <4> QED BY <1>1, <1>5, <4>1 DEF Init_calls
    <3>3. y.at # "load_file"
      BY <1>0, <1>5, <1>8, <2>2, <3>1 DEF LoadInv
    <3>4. y \notin Bad
      BY <3>2, <3>3
    <3>5. FollowedBy(answers', Bad, Good)
      <4>1. FollowedBy(answers, Bad, Good)
        BY <1>0, <3>1 DEF ButtonInv
      <4> HIDE DEF Bad, Good
      <4> QED BY <1>2, <1>4, <3>4, <4>1, Added
    <3>6. (run_enabled \/ isRunning \/ Waits({"stop"}) \/ Told({"load_file"}, TRUE))'
      BY <1>0, <1>3, <1>5, <1>7, <3>1 DEF ButtonInv
    <3> QED BY <3>5, <3>6 DEF ButtonInv
  <2> QED BY <2>1, <2>2
<1> QED BY <1>5, <1>6, <1>9, <1>10, <1>11 DEF Inv

\* What a handler that goes on with the answer h does to the page.
PageStep(h) ==
  /\ isRunning' \in BOOLEAN /\ run_enabled' \in BOOLEAN /\ stop_enabled' \in BOOLEAN
  /\ label' \in {"Run", "Resume"} /\ frames' \in Nat
  /\ isRunning' => \/ h.at = "start" /\ h.res /\ frames' > 0
                   \/ isRunning /\ (frames > 0 => frames' > 0)
                                /\ (h.at = "run_chunk" => Called({"count"})')
                                /\ (h.at = "count" => frames' > 0)
                                /\ h.at # "raised"
  /\ isRunning /\ ~isRunning' => Called({"stop"})'
  /\ stop_enabled' => isRunning' \/ (stop_enabled /\ h.at # "stop")
  /\ run_enabled' \/ isRunning'
       \/ (run_enabled' = run_enabled /\ h.at # "stop" /\ ~(h.at = "load_file" /\ h.res))
       \/ (h.at \in {"load_file", "initialize"} /\ ~h.res)
  /\ h.at = "start" /\ h.res => isRunning'

\* Which call it makes, if any.
CallStep(h) ==
  \/ calls' = calls
  \/ \E x \in Item : /\ calls' = Append(calls, x)
                     /\ x.at = "initialize" => h.at = "init?" /\ ~h.res
                     /\ x.at = "load_file" => h.at \in {"init?", "initialize"} /\ h.res

\* Await: a call made while the answer h is taken.
LEMMA CallMade ==
  ASSUME TypeInv, NEW h \in Item, NEW at, NEW why \in {"", "button", "loop", "reset", "load"},
         NEW o \in Options \union {NoOptions}, NEW r \in BOOLEAN,
         at \in {"stop", "reset", "init?", "count", "exit_info", "update_options"}
           \/ (at = "initialize" /\ h.at = "init?" /\ ~h.res)
           \/ (at = "load_file" /\ h.at \in {"init?", "initialize"} /\ h.res),
         calls' = Append(calls, [at |-> at, why |-> why, opts |-> o, res |-> r])
  PROVE  CallStep(h) /\ Called({at})'
<1> DEFINE x == [at |-> at, why |-> why, opts |-> o, res |-> r]
<1>1. x \in Item /\ x.at = at
  BY DEF Item
<1> HIDE DEF x
<1>2. calls' = Append(calls, x)
  BY DEF x
<1>3. Called({at})'
  BY <1>1, <1>2, Awaited
<1> QED BY <1>1, <1>2, <1>3 DEF CallStep

\* stopEmulation within a handler, and what follows it in its callers.
LEMMA StoppingMade ==
  ASSUME TypeInv, NEW h \in Item, NEW why \in {"", "button", "loop", "reset", "load"}
  PROVE  /\ AfterStop(why) => CallStep(h)
         /\ Stopping(why, AfterStop(why)) =>
              /\ CallStep(h) /\ isRunning' = FALSE
              /\ isRunning => Called({"stop"})'
<1>0. ui \in Options \union {NoOptions} /\ isRunning \in BOOLEAN /\ FALSE \in BOOLEAN
  BY DEF TypeInv
<1>1. ASSUME AfterCall(why) PROVE CallStep(h)
  <2>1. CASE why = "button" /\ calls' = calls
    BY <2>1 DEF CallStep
  <2>2. CASE calls' = Append(calls, Call("exit_info", "", NoOptions))
    BY <1>0, <2>2, CallMade DEF Call
  <2>3. CASE calls' = Append(calls, Call("reset", "", NoOptions))
    BY <1>0, <2>3, CallMade DEF Call
  <2>4. CASE calls' = Append(calls, Call("init?", "", ui))
    BY <1>0, <2>4, CallMade DEF Call
  <2> QED BY <1>1, <2>1, <2>2, <2>3, <2>4 DEF AfterCall
<1>2. ASSUME calls' = Append(calls, Call("stop", why, NoOptions))
      PROVE  CallStep(h) /\ Called({"stop"})'
  BY <1>0, <1>2, CallMade DEF Call
<1> QED BY <1>0, <1>1, <1>2, StoppingIs

\* Every handler that goes on: it takes the oldest answer, makes at most one
\* call, and leaves Python alone.
LEMMA GoOnShape ==
  ASSUME TypeInv, GoOn
  PROVE  /\ answers # <<>> /\ Head(answers) \in Item /\ answers' = Tail(answers)
         /\ Items(answers) = {Head(answers)} \union Items(answers)'
         /\ UNCHANGED <<pyVars, ui, overlap>>
         /\ PageStep(Head(answers)) /\ CallStep(Head(answers))
         /\ TypeInv'
<1> DEFINE h == Head(answers)
<1>1. answers # <<>> /\ answers' = Tail(answers) /\ UNCHANGED <<pyVars, ui, overlap>>
  BY DEF GoOn, startEmulation, stopEmulation, resetEmulation, load_begins, load_ends, updateOptions,
         loop_counts, loop_raised, loop_ends, exit_shown, Answered, Taken
<1>2. h \in Item /\ Items(answers) = {h} \union Items(answers)' /\ answers' \in Seq(Item)
  <2>1. /\ h \in Item /\ Items(answers) = {h} \union Items(Tail(answers))
        /\ Tail(answers) \in Seq(Item)
    BY <1>1, Removed DEF TypeInv
  <2> QED BY <1>1, <2>1 DEF Items
<1>3. /\ h.res \in BOOLEAN /\ h.opts \in Options \union {NoOptions}
      /\ h.why \in {"", "button", "loop", "reset", "load"}
      /\ isRunning \in BOOLEAN /\ run_enabled \in BOOLEAN /\ stop_enabled \in BOOLEAN
      /\ label \in {"Run", "Resume"} /\ frames \in Nat /\ FALSE \in BOOLEAN
  BY <1>2 DEF Item, TypeInv
<1>4. frames + 1 \in Nat /\ frames + 1 > 0
  <2>1. frames \in Nat
    BY <1>3
  <2> QED BY <2>1
<1>5. PageStep(h) /\ CallStep(h)
  <2> USE DEF buttons
  <2>1. CASE startEmulation
    <3>1. h.at = "start" /\ calls' = calls
      BY <2>1 DEF startEmulation, Answered
    <3>2. CASE h.res
      <4>1. isRunning' = TRUE /\ run_enabled' = FALSE /\ stop_enabled' = TRUE /\ label' = "Resume" /\ frames' = frames + 1
        BY <2>1, <3>2 DEF startEmulation, Result
      <4> QED BY <1>4, <3>1, <3>2, <4>1 DEF PageStep, CallStep
    <3>3. CASE ~h.res
      <4>1. UNCHANGED <<isRunning, run_enabled, stop_enabled, label, frames>>
        BY <2>1, <3>3 DEF startEmulation, Result
      <4> QED BY <1>3, <3>1, <3>3, <4>1 DEF PageStep, CallStep
    <3> QED BY <3>2, <3>3
  <2>2. CASE stopEmulation
    <3>1. /\ h.at = "stop" /\ run_enabled' = TRUE /\ stop_enabled' = FALSE /\ AfterStop(h.why)
          /\ UNCHANGED <<isRunning, label, frames>>
      BY <2>2 DEF stopEmulation, Answered
    <3>2. CallStep(h)
      BY <1>2, <1>3, <3>1, StoppingMade
    <3> QED BY <1>3, <3>1, <3>2 DEF PageStep
  <2>3. CASE resetEmulation
    <3>1. /\ h.at = "reset" /\ label' \in {"Run", "Resume"} /\ calls' = calls
          /\ UNCHANGED <<isRunning, run_enabled, stop_enabled, frames>>
      BY <1>3, <2>3 DEF resetEmulation, Answered
    <3> QED BY <1>3, <3>1 DEF PageStep, CallStep
  <2>4. CASE load_begins
    <3>1. /\ h.at = "init?" \/ (h.at = "initialize" /\ h.res)
          /\ UNCHANGED <<isRunning, run_enabled, stop_enabled, label, frames>>
      BY <2>4 DEF load_begins, Answered, Result
    <3>2. CASE h.res
      <4>1. calls' = Append(calls, [at |-> "load_file", why |-> "", opts |-> h.opts, res |-> FALSE])
        BY <2>4, <3>2 DEF load_begins, Await, Call, Result
      <4>2. CallStep(h)
        BY <1>2, <1>3, <3>1, <3>2, <4>1, CallMade
      <4> QED BY <1>3, <3>1, <4>2 DEF PageStep
    <3>3. CASE ~h.res
      <4>1. calls' = Append(calls, [at |-> "initialize", why |-> "", opts |-> h.opts, res |-> FALSE])
        BY <2>4, <3>3 DEF load_begins, Await, Call, Result
      <4>2. CallStep(h)
        BY <1>2, <1>3, <3>1, <3>3, <4>1, CallMade
      <4> QED BY <1>3, <3>1, <4>2 DEF PageStep
    <3> QED BY <3>2, <3>3
  <2>5. CASE load_ends
    <3>1. /\ h.at = "load_file" \/ (h.at = "initialize" /\ ~h.res)
          /\ run_enabled' = h.res /\ label' \in {"Run", "Resume"} /\ calls' = calls
          /\ UNCHANGED <<isRunning, stop_enabled, frames>>
      BY <1>3, <2>5 DEF load_ends, Answered, Result
    <3> QED BY <1>3, <3>1 DEF PageStep, CallStep
  <2>6. CASE updateOptions
    <3>1. /\ h.at \in {"options?", "update_options"}
          /\ UNCHANGED <<isRunning, run_enabled, stop_enabled, label, frames>>
          /\ calls' = calls \/ calls' = Append(calls, [at |-> "update_options", why |-> "",
                                                       opts |-> NoOptions, res |-> FALSE])
      BY <2>6 DEF updateOptions, Answered, Await, Call
    <3>2. CallStep(h)
      <4>1. CASE calls' = calls
        BY <4>1 DEF CallStep
      <4>2. CASE calls' # calls
        BY <1>2, <1>3, <3>1, <4>2, CallMade
      <4> QED BY <4>1, <4>2
    <3> QED BY <1>3, <3>1, <3>2 DEF PageStep
  <2>7. CASE loop_counts
    <3> DEFINE x == [Call("count", "", NoOptions) EXCEPT !.res = Result]
    <3>1. /\ h.at = "run_chunk"
          /\ UNCHANGED <<isRunning, run_enabled, stop_enabled, label, frames>>
          /\ calls' = Append(calls, x)
      BY <2>7 DEF loop_counts, Answered
    <3>2. x \in Item /\ x.at = "count"
      BY <1>3 DEF Call, Item, Result
    <3> HIDE DEF x
    <3>3. CallStep(h) /\ Called({"count"})'
      BY <3>1, <3>2, Awaited DEF CallStep
    <3> QED BY <1>3, <3>1, <3>3 DEF PageStep
  <2>8. CASE loop_raised
    <3>1. h.at = "raised" /\ Stopping("button", AfterStop("button"))
          /\ UNCHANGED <<run_enabled, stop_enabled, label, frames>>
      BY <2>8 DEF loop_raised, Answered
    <3>2. CallStep(h) /\ isRunning' = FALSE /\ (isRunning => Called({"stop"})')
      BY <1>2, <3>1, StoppingMade
    <3> QED BY <1>3, <3>1, <3>2 DEF PageStep
  <2>9. CASE loop_ends /\ h.res
    <3>1. h.at = "count" /\ frames' = frames + 1 /\ calls' = calls
          /\ UNCHANGED <<isRunning, run_enabled, stop_enabled, label>>
      BY <2>9 DEF loop_ends, Answered, Result
    <3> QED BY <1>3, <1>4, <3>1 DEF PageStep, CallStep
  <2>10. CASE loop_ends /\ ~h.res
    <3>1. h.at = "count" /\ Stopping("loop", AfterStop("loop"))
          /\ UNCHANGED <<run_enabled, stop_enabled, label, frames>>
      BY <2>10 DEF loop_ends, Answered, Result
    <3>2. CallStep(h) /\ isRunning' = FALSE /\ (isRunning => Called({"stop"})')
      BY <1>2, <3>1, StoppingMade
    <3> QED BY <1>3, <3>1, <3>2 DEF PageStep
  <2>11. CASE exit_shown
    <3>1. /\ h.at = "exit_info" /\ label' \in {"Run", "Resume"} /\ calls' = calls
          /\ UNCHANGED <<isRunning, run_enabled, stop_enabled, frames>>
      BY <2>11 DEF exit_shown, Answered
    <3> QED BY <1>3, <3>1 DEF PageStep, CallStep
  <2> QED
    BY <2>1, <2>2, <2>3, <2>4, <2>5, <2>6, <2>7, <2>8, <2>9, <2>10, <2>11 DEF GoOn
<1>6. calls' \in Seq(Item)
  BY <1>5, Awaited DEF CallStep, TypeInv
<1>7. TypeInv'
  BY <1>1, <1>2, <1>5, <1>6 DEF TypeInv, PageStep, pyVars
<1> QED BY <1>1, <1>2, <1>5, <1>7

\* The handlers that go on keep the invariant.
LEMMA GoOnInv ==
  ASSUME Inv, GoOn
  PROVE  Inv'
<1> DEFINE h == Head(answers)
<1>0. TypeInv /\ RunInv /\ LoadInv /\ ButtonInv /\ (should_reset_pc => restart_due)
  BY DEF Inv
<1>1. /\ answers # <<>> /\ h \in Item /\ answers' = Tail(answers)
      /\ Items(answers) = {h} \union Items(answers)'
      /\ UNCHANGED <<pyVars, ui, overlap>>
      /\ PageStep(h) /\ CallStep(h)
      /\ TypeInv'
  BY <1>0, GoOnShape
<1>2. UNCHANGED <<initialized, file_loaded, running, should_reset_pc, restart_due>>
  BY <1>1 DEF pyVars
<1>3. calls \in Seq(Item) /\ answers \in Seq(Item) /\ frames \in Nat /\ h.res \in BOOLEAN
  BY <1>0, <1>1 DEF TypeInv, Item
<1> HIDE DEF h
<1>4. Items(calls) \subseteq Items(calls)'
  <2>1. CASE calls' = calls
    BY <2>1 DEF Items
  <2> QED BY <1>0, <1>1, <2>1, Awaited DEF CallStep
<1>5. /\ \A K : Called(K) => Called(K)'
      /\ \A K : Called(K)' => Waits(K)'
      /\ \A K : Waits(K) => Waits(K)' \/ h.at \in K
      /\ \A K, r : Told(K, r) => Told(K, r)' \/ (h.at \in K /\ h.res = r)
  BY <1>1, <1>4 DEF Called, Waits, Told
<1>6. RunInv'
  <2>1. isRunning' => (frames > 0 \/ Waits({"run_chunk", "raised", "count"}))'
    <3>1. Called({"count"})' => Waits({"run_chunk", "raised", "count"})'
      BY DEF Called, Waits
    <3> QED BY <1>0, <1>1, <1>5, <3>1 DEF RunInv, PageStep
  <2>2. running' => (isRunning \/ Told({"start"}, TRUE) \/ Called({"stop"}))'
    BY <1>0, <1>1, <1>2, <1>5 DEF RunInv, PageStep
  <2>3. stop_enabled' => (isRunning \/ Waits({"stop"}))'
    BY <1>0, <1>1, <1>5 DEF RunInv, PageStep
  <2> QED BY <2>1, <2>2, <2>3 DEF RunInv
<1>7. LoadInv'
  <2>1. CASE calls' = calls
    <3>1. ASSUME NEW AC, NEW AA, NEW BC, NEW BA, Ordered(calls, answers, AC, AA, BC, BA)
          PROVE  Ordered(calls', answers', AC, AA, BC, BA)
      BY <1>1, <1>3, <2>1, <3>1, OrderMoved
    <3>2. NoInit => NoInit'
      BY <1>1, <2>1 DEF NoInit, Init_calls, Init_answers, Items
    <3> QED BY <1>0, <1>2, <3>1, <3>2 DEF LoadInv, Init_calls, Init_answers, Load_calls, Load_answers
  <2>2. ASSUME NEW x \in Item, calls' = Append(calls, x),
               x.at = "initialize" => h.at = "init?" /\ ~h.res,
               x.at = "load_file" => h.at \in {"init?", "initialize"} /\ h.res
        PROVE  LoadInv'
    <3>1. (x \in Init_calls => h \in Init_answers) /\ (x \in Load_calls => h \in Load_answers)
      BY <1>1, <2>2 DEF Init_calls, Init_answers, Load_calls, Load_answers
    <3>2. ASSUME NEW AC, NEW AA, NEW BC, NEW BA, Ordered(calls, answers, AC, AA, BC, BA),
                 x \in AC => h \in AA, x \in BC => h \in BA
          PROVE  Ordered(calls', answers', AC, AA, BC, BA)
      BY <1>1, <1>3, <2>2, <3>2, OrderMoved DEF h
    <3>3. Items(calls)' = Items(calls) \union {x}
      BY <1>0, <2>2, Awaited
    <3>4. NoInit => NoInit'
      BY <1>1, <3>1, <3>3 DEF NoInit, Init_calls, Init_answers
    <3> QED BY <1>0, <1>2, <3>1, <3>2, <3>4 DEF LoadInv, Init_calls, Init_answers, Load_calls, Load_answers
  <2> QED BY <1>1, <2>1, <2>2 DEF CallStep
<1>8. ButtonInv'
  <2> SUFFICES ASSUME file_loaded, file_loaded' PROVE ButtonInv'
    BY <1>2 DEF ButtonInv
  <2> DEFINE Bad == {x \in Item : x.at \in {"load_file", "initialize"} /\ ~x.res}
             Good == {x \in Item : x.at = "load_file" /\ x.res}
  <2>1. FollowedBy(answers, Bad, Good)
    BY <1>0 DEF ButtonInv
  <2>2. h \in Bad => Told({"load_file"}, TRUE)'
    <3>1. h \in Bad => Items(Tail(answers)) \intersect Good # {}
      <4> HIDE DEF Bad, Good
      <4> QED BY <1>1, <1>3, <2>1, Removed DEF h
    <3>2. Items(Tail(answers)) = Items(answers)'
      BY <1>1 DEF Items
    <3>3. Items(answers)' \intersect Good # {} => Told({"load_file"}, TRUE)'
      <4> SUFFICES ASSUME NEW x \in Items(answers)', x \in Good PROVE Told({"load_file"}, TRUE)'
        OBVIOUS
      <4>1. x \in Item
        OBVIOUS
      <4>2. x.res \in BOOLEAN
        BY <4>1 DEF Item
      <4>3. x.at = "load_file" /\ x.res
        OBVIOUS
      <4> QED BY <4>2, <4>3 DEF Told
    <3> QED BY <3>1, <3>2, <3>3
  <2>3. FollowedBy(answers', Bad, Good)
    <3> HIDE DEF Bad, Good
    <3> QED BY <1>1, <1>3, <2>1, Removed
  <2>4. (run_enabled \/ isRunning \/ Waits({"stop"}) \/ Told({"load_file"}, TRUE))'
    <3>1. CASE h.at \in {"load_file", "initialize"} /\ ~h.res
      BY <1>1, <2>2, <3>1
    <3>2. CASE run_enabled' \/ isRunning'
      BY <3>2
    <3>3. CASE ~isRunning' /\ run_enabled' = run_enabled /\ h.at # "stop" /\ ~(h.at = "load_file" /\ h.res)
      <4>1. isRunning => Waits({"stop"})'
        BY <1>1, <1>5, <3>3 DEF PageStep
      <4>2. Waits({"stop"}) => Waits({"stop"})'
        BY <1>5, <3>3
      <4>3. Told({"load_file"}, TRUE) => Told({"load_file"}, TRUE)'
        <5>1. ~(h.at \in {"load_file"} /\ h.res = TRUE)
          BY <3>3
        <5> QED BY <1>5, <5>1
      <4>4. run_enabled \/ isRunning \/ Waits({"stop"}) \/ Told({"load_file"}, TRUE)
        BY <1>0 DEF ButtonInv
      <4> QED BY <3>3, <4>1, <4>2, <4>3, <4>4
    <3> QED BY <1>1, <3>1, <3>2, <3>3 DEF PageStep
  <2> QED BY <2>3, <2>4 DEF ButtonInv
<1> QED BY <1>0, <1>1, <1>2, <1>6, <1>7, <1>8 DEF Inv

\* main.js, browser_entry.py: the page and Python stay in step, whatever is
\* clicked and however the answers fall.
THEOREM PageInStep == Spec => []Inv
<1>1. Init => Inv
  <2> SUFFICES ASSUME Init PROVE Inv
    OBVIOUS
  <2>1. calls = <<>> /\ answers = <<>> /\ frames = 0 /\ ~file_loaded /\ ~running /\ ~isRunning
        /\ ~stop_enabled /\ ~initialized /\ restart_due
    BY DEF Init, PyInit
  <2>2. Items(calls) = {} /\ Items(answers) = {}
    BY <2>1 DEF Items
  <2>3. TypeInv
    <3>1. calls \in Seq(Item) /\ answers \in Seq(Item) /\ frames \in Nat
      BY <2>1
    <3>2. ui \in Options /\ label = "Run"
      BY DEF Init
    <3>3. \A b \in {initialized, file_loaded, running, should_reset_pc, restart_due, isRunning,
                   run_enabled, stop_enabled} : b = TRUE \/ b = FALSE
      BY DEF Init, PyInit
    <3> QED BY <3>1, <3>2, <3>3 DEF TypeInv
  <2>4. LoadInv
    BY <2>1, <2>2, OrderOfNone DEF LoadInv
  <2> QED BY <2>1, <2>3, <2>4 DEF Inv, RunInv, ButtonInv
<1>2. Inv /\ [Next]_vars => Inv'
  <2> SUFFICES ASSUME Inv, [Next]_vars PROVE Inv'
    OBVIOUS
  <2>1. CASE UNCHANGED vars
    BY <2>1 DEF vars, pyVars, jsVars, buttons, Inv, TypeInv, RunInv, LoadInv, ButtonInv, NoInit,
                Called, Told, Waits, Items
  <2> QED BY <2>1, UserInv, PythonInv, GoOnInv DEF Next
<1> QED BY <1>1, <1>2, PTL DEF Spec

\* main.js: a page that takes the emulator to be running has a loop that will
\* notice its end.
THEOREM LoopAlwaysAlive == Spec => []LoopAlive
<1>1. Inv => LoopAlive
  <2> SUFFICES ASSUME Inv, isRunning, ~(frames > 0)
               PROVE  \E at \in {"run_chunk", "raised", "count"} : InFlight(at)
    BY DEF LoopAlive
  <2>1. PICK x \in Items(calls) \union Items(answers) : x.at \in {"run_chunk", "raised", "count"}
    BY DEF Inv, RunInv, Waits
  <2>2. InFlight(x.at)
    BY InFlightIs DEF Waits
  <2> QED BY <2>1, <2>2
<1> QED BY <1>1, PageInStep, PTL

\* main.js: when nothing is under way, nothing runs, and a loaded program can
\* be started.
THEOREM QuietIsStopped == Spec => []QuietMeansStopped
<1>1. Inv => QuietMeansStopped
  <2> SUFFICES ASSUME Inv, Quiet
               PROVE  ~isRunning /\ ~running /\ ~stop_enabled /\ (file_loaded => run_enabled)
    BY DEF QuietMeansStopped
  <2>1. frames = 0 /\ Items(calls) = {} /\ Items(answers) = {}
    BY DEF Quiet, Items
  <2>2. \A K, r : ~Called(K) /\ ~Told(K, r) /\ ~Waits(K)
    BY <2>1 DEF Called, Told, Waits
  <2>3. ~isRunning
    BY <2>1, <2>2 DEF Inv, RunInv
  <2>4. ~running /\ ~stop_enabled
    BY <2>2, <2>3 DEF Inv, RunInv
  <2>5. file_loaded => run_enabled
    BY <2>2, <2>3 DEF Inv, ButtonInv
  <2> QED BY <2>3, <2>4, <2>5
<1> QED BY <1>1, PageInStep, PTL

\* start, stop, run_chunk: Stop and Run resume the program; it only goes back
\* to its entry point if it was loaded, was reset or had ended.
THEOREM StopAndRunResumes == Spec => StopThenRunResumes
<1> DEFINE Restarts == pc = "mid" /\ pc' = "entry" => restart_due \/ restart_due' \/ ~file_loaded'
<1>1. Inv /\ [Next]_vars => [Restarts]_vars
  <2> SUFFICES ASSUME Inv, Next, pc = "mid", pc' = "entry"
               PROVE  restart_due \/ restart_due' \/ ~file_loaded'
    OBVIOUS
  <2>0. TypeInv
    BY DEF Inv
  <2>1. python
    BY <2>0, UserShape, GoOnShape DEF Next, pyVars, machineVars
  <2>2. PICK y \in Item : Served(y)
    BY <2>0, <2>1, PythonShape
  <2>3. Head(calls) \in Items(calls) /\ Head(calls) \in Item
    BY <2>0, <2>1, PythonShape
  <2>4. y.res \in BOOLEAN
    BY DEF Item
  <2> USE DEF pyVars, machineVars
  <2>5. CASE Head(calls).at = "initialize" /\ initialize(js_options, y.res)
    <3>1. Head(calls) \in Init_calls
      BY <2>3, <2>5 DEF Init_calls
    <3>2. ~file_loaded
      BY <2>3, <3>1 DEF Inv, LoadInv, NoInit
    <3> QED BY <2>5, <3>2 DEF initialize
  <2>6. CASE load_file(js_options, y.res) \/ reset(js_options, y.res)
    BY <2>4, <2>6 DEF load_file, reset, Rebuilt, Loaded
  <2>7. CASE start(y.res)
    BY <2>7 DEF start, Inv
  <2>8. CASE \/ stop(y.res) \/ run_chunk(y.res) \/ update_options(js_options, y.res) \/ query(y.res)
             \/ UNCHANGED pyVars
    BY <2>8 DEF stop, run_chunk, update_options, query
  <2> QED BY <2>2, <2>5, <2>6, <2>7, <2>8 DEF Served
<1> QED BY <1>1, PageInStep, PTL DEF Spec, StopThenRunResumes
=============================================================================
