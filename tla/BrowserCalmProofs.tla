------------------------- MODULE BrowserCalmProofs -------------------------
(***************************************************************************)
(* What BrowserPage promises as long as Run is clicked only when no start, *)
(* loop, load or reset is under way: the invariant of a page that is calm, *)
(* on top of the one that holds whatever is clicked.                       *)
(***************************************************************************)
EXTENDS BrowserProofs

Kind(K) == {x \in Item : x.at \in K}

\* The page will go on with no answer of K before one of L.
PageOrder(K, L) == Ordered(answers, calls, Kind(K), Kind(K), Kind(L), Kind(L))

Loads == {"reset", "init?", "initialize", "load_file"}
Tokens == {"run_chunk", "raised", "count"}

\* A start that is under way is the only one, and nothing else is that
\* matters; once it has succeeded, the program runs, and will be resumed.
StartInv ==
  /\ Waits({"start"}) =>
       /\ ~isRunning /\ frames = 0
       /\ \A x \in Items(calls) \union Items(answers) : x.at \in {"start", "options?", "update_options"}
  /\ PageOrder({"start"}, {"start"})
  /\ Told({"start"}, TRUE) => running /\ ~should_reset_pc

\* While the page takes the emulator to be running, nothing else is under way
\* but its one loop.
LoopInv ==
  /\ isRunning => ~run_enabled /\ ~Waits(Loads \union {"start", "stop", "exit_info"})
  /\ frames \in {0, 1} /\ (frames = 1 => ~Waits(Tokens))
  /\ PageOrder(Tokens, Tokens)

\* It does run, until the loop has been told that it does not.
ChunkInv ==
  /\ isRunning =>
       \/ running
       \/ /\ frames = 0 /\ ~Called({"run_chunk"})
          /\ ~Told({"run_chunk"}, TRUE) /\ ~Waits({"raised"})
          /\ \A x \in Items(calls) \union Items(answers) : x.at = "count" => ~x.res
  /\ Called({"run_chunk"}) => running
  /\ NoneBefore(calls, Kind({"stop"}), Kind({"run_chunk"}))

\* A stop is the only one that is under way; what replaces the program comes
\* after it.
StopInv ==
  /\ Waits({"stop"}) => ~run_enabled /\ ~isRunning
  /\ PageOrder(Loads \union {"stop"}, {"stop"})

\* The page is about to be told, or is dealing with it, that the program was
\* loaded, was reset or has ended.
EndKnown(x) ==
  \/ x.at = "count" /\ ~x.res
  \/ x.at = "stop" /\ x.why = "loop"
  \/ x.at = "exit_info"
EndTold(x) ==
  \/ x.at \in {"reset", "load_file"} /\ x.res
  \/ x.at = "run_chunk" /\ ~x.res
Due ==
  \/ \E x \in Items(answers) : EndTold(x)
  \/ \E x \in Items(calls) \union Items(answers) : EndKnown(x)

\* The label is right, or is about to be changed.
LabelInv ==
  /\ Due => should_reset_pc
  /\ file_loaded /\ label = "Resume" /\ should_reset_pc => Due
  /\ file_loaded /\ label = "Run" /\ ~should_reset_pc => Told({"start"}, TRUE)

Calm ==
  /\ StartInv /\ LoopInv /\ ChunkInv /\ StopInv /\ LabelInv
  /\ running => file_loaded

CalmInv == overlap \in BOOLEAN /\ (~overlap => Calm)

\* Await: a call that is made is the last that the page will go on with.
LEMMA OrderByUser ==
  ASSUME TypeInv, NEW x \in Item, calls' = Append(calls, x), answers' = answers,
         NEW K, NEW L, PageOrder(K, L), x.at \in L => ~Waits(K)
  PROVE  PageOrder(K, L)'
<1>1. calls \in Seq(Item) /\ answers \in Seq(Item)
  BY DEF TypeInv
<1>2. x \in Kind(L) => Items(answers) \intersect Kind(K) = {} /\ Items(calls) \intersect Kind(K) = {}
  BY DEF Kind, Waits
<1>3. Ordered(answers, Append(calls, x), Kind(K), Kind(K), Kind(L), Kind(L))
  BY <1>1, <1>2, OrderGiven DEF PageOrder
<1> QED BY <1>3 DEF PageOrder, Kind

\* python: the order in which the page goes on is that of the calls.
LEMMA OrderByPython ==
  ASSUME TypeInv, calls # <<>>, calls' = Tail(calls), NEW y \in Item, answers' = Append(answers, y),
         NEW K, NEW L, PageOrder(K, L),
         y.at \in K => Head(calls).at \in K, y.at \in L => Head(calls).at \in L
  PROVE  PageOrder(K, L)'
<1>1. calls \in Seq(Item) /\ answers \in Seq(Item)
  BY DEF TypeInv
<1>2. Head(calls) \in Item
  BY <1>1, Removed
<1>3. (y \in Kind(K) => Head(calls) \in Kind(K)) /\ (y \in Kind(L) => Head(calls) \in Kind(L))
  BY <1>2 DEF Kind
<1>4. Ordered(Append(answers, y), Tail(calls), Kind(K), Kind(K), Kind(L), Kind(L))
  BY <1>1, <1>3, OrderMoved DEF PageOrder
<1> QED BY <1>4 DEF PageOrder, Kind

\* The handlers that go on: the first leaves, and is perhaps the last again.
LEMMA OrderByPage ==
  ASSUME TypeInv, answers # <<>>, answers' = Tail(answers), NEW K, NEW L, PageOrder(K, L)
  PROVE  /\ Head(answers).at \in K => \A z \in Items(calls) \union Items(answers)' : z.at \notin L
         /\ calls' = calls => PageOrder(K, L)'
         /\ \A x \in Item :
              /\ calls' = Append(calls, x)
              /\ x.at \in L => \A z \in Items(calls) \union Items(answers)' : z.at \notin K
              => PageOrder(K, L)'
<1>1. calls \in Seq(Item) /\ answers \in Seq(Item) /\ Tail(answers) \in Seq(Item) /\ Head(answers) \in Item
  BY Removed DEF TypeInv
<1>2. /\ Ordered(Tail(answers), calls, Kind(K), Kind(K), Kind(L), Kind(L))
      /\ Head(answers) \in Kind(K) => /\ Items(Tail(answers)) \intersect Kind(L) = {}
                                      /\ Items(calls) \intersect Kind(L) = {}
  BY <1>1, OrderTaken DEF PageOrder
<1>3. Items(answers)' = Items(Tail(answers))
  BY DEF Items
<1>4. Items(calls) \subseteq Item /\ Items(Tail(answers)) \subseteq Item
  <2>1. \A s \in Seq(Item) : Items(s) \subseteq Item
    BY DEF Items
  <2> QED BY <1>1, <2>1
<1>5. Head(answers).at \in K => \A z \in Items(calls) \union Items(answers)' : z.at \notin L
  BY <1>1, <1>2, <1>3, <1>4 DEF Kind
<1>6. calls' = calls => PageOrder(K, L)'
  BY <1>2 DEF PageOrder, Kind
<1>7. ASSUME NEW x \in Item, calls' = Append(calls, x),
             x.at \in L => \A z \in Items(calls) \union Items(answers)' : z.at \notin K
      PROVE  PageOrder(K, L)'
  <2>1. x \in Kind(L) => Items(Tail(answers)) \intersect Kind(K) = {} /\ Items(calls) \intersect Kind(K) = {}
    BY <1>3, <1>7 DEF Kind
  <2>2. Ordered(Tail(answers), Append(calls, x), Kind(K), Kind(K), Kind(L), Kind(L))
    BY <1>1, <1>2, <2>1, OrderGiven
  <2> QED BY <1>7, <2>2 DEF PageOrder, Kind
<1> QED BY <1>5, <1>6, <1>7

\* What the user and the frames may do, as long as Run is clicked only when
\* nothing else is under way.
UserMove ==
  \/ calls' = calls /\ UNCHANGED <<isRunning, frames>>
  \/ calls' = calls /\ ~isRunning /\ ~isRunning' /\ frames > 0 /\ frames' = frames - 1
  \/ \E x \in Item :
       /\ calls' = Append(calls, x)
       /\ \/ /\ x.at = "start" /\ run_enabled /\ ~isRunning /\ UNCHANGED <<isRunning, frames>>
             /\ frames = 0 /\ ~Waits(Loads \union Tokens \union {"start", "exit_info"})
          \/ /\ x.at = "stop" /\ x.why # "loop"
             /\ isRunning /\ ~isRunning' /\ frames' = frames
          \/ /\ x.at \in {"reset", "init?"} /\ ~Waits({"start"})
             /\ ~isRunning /\ UNCHANGED <<isRunning, frames>>
          \/ x.at = "options?" /\ UNCHANGED <<isRunning, frames>>
          \/ /\ x.at = "run_chunk" /\ isRunning /\ UNCHANGED isRunning
             /\ frames > 0 /\ frames' = frames - 1

\* click_run, click_stop, click_reset, pick_file, change_options, loop_begins:
\* these are their steps.
LEMMA UserMoves ==
  ASSUME TypeInv, overlap \in BOOLEAN, User \/ loop_begins
  PROVE  /\ overlap' \in BOOLEAN
         /\ ~overlap' => ~overlap /\ UserMove
<1> USE DEF buttons
<1>0. ui \in Options \union {NoOptions} /\ isRunning \in BOOLEAN /\ frames \in Nat
  BY DEF TypeInv
<1>1. CASE click_run
  <2> DEFINE x == Call("start", "", NoOptions)
  <2>1. /\ calls' = Append(calls, x) /\ run_enabled /\ ~isRunning /\ UNCHANGED <<isRunning, frames>>
        /\ overlap' = (overlap \/ Replacing \/ Looping \/ InFlight("start"))
    BY <1>1 DEF click_run, Await
  <2>2. x \in Item /\ x.at = "start"
    BY DEF Call, Item
  <2> HIDE DEF x
  <2>3. ASSUME ~overlap'
        PROVE  frames = 0 /\ ~Waits(Loads \union Tokens \union {"start", "exit_info"})
    <3>1. ~Replacing /\ ~Looping /\ ~InFlight("start")
      BY <2>1, <2>3
    <3>2. frames = 0
      BY <1>0, <3>1 DEF Looping
    <3>3. \A at \in Loads \union Tokens \union {"start", "exit_info"} : ~InFlight(at)
      BY <3>1 DEF Replacing, Looping, Loads, Tokens
    <3>4. \A at \in Loads \union Tokens \union {"start", "exit_info"} : ~Waits({at})
      BY <3>3, InFlightIs
    <3> QED BY <3>2, <3>4 DEF Waits
  <2>4. overlap' \in BOOLEAN /\ (~overlap' => ~overlap)
    BY <2>1
  <2> QED BY <2>1, <2>2, <2>3, <2>4 DEF UserMove
<1>2. ASSUME NEW why \in {"button", "reset", "load"}, Stopping(why, AfterStop(why)), frames' = frames,
             why = "button" \/ ~Waits({"start"})
      PROVE  UserMove
  <2>1. CASE isRunning /\ isRunning' = FALSE /\ calls' = Append(calls, Call("stop", why, NoOptions))
    <3> DEFINE x == Call("stop", why, NoOptions)
    <3>1. x \in Item /\ x.at = "stop" /\ x.why # "loop"
      BY DEF Call, Item
    <3>2. calls' = Append(calls, x)
      BY <2>1
    <3> HIDE DEF x
    <3> QED BY <1>2, <2>1, <3>1, <3>2 DEF UserMove
  <2>2. CASE ~isRunning /\ isRunning' = isRunning /\ AfterCall(why)
    <3> DEFINE x == IF why = "reset" THEN Call("reset", "", NoOptions) ELSE Call("init?", "", ui)
    <3>1. x \in Item /\ x.at \in {"reset", "init?"}
      BY <1>0 DEF Call, Item
    <3>2. why = "button" \/ calls' = Append(calls, x)
      BY <2>2 DEF AfterCall
    <3>3. why = "button" => calls' = calls
      BY <2>2 DEF AfterCall
    <3> HIDE DEF x
    <3> QED BY <1>2, <2>2, <3>1, <3>2, <3>3 DEF UserMove
  <2> QED BY <1>2, <2>1, <2>2, StoppingIs
<1>3. CASE click_stop
  BY <1>2, <1>3 DEF click_stop
<1>4. CASE click_reset \/ pick_file
  <2>1. /\ overlap' = (overlap \/ InFlight("start")) /\ frames' = frames
        /\ \E why \in {"reset", "load"} : Stopping(why, AfterStop(why))
    BY <1>4 DEF click_reset, pick_file
  <2>2. overlap' \in BOOLEAN /\ (~overlap' => ~overlap /\ ~Waits({"start"}))
    BY <2>1, InFlightIs
  <2> QED BY <1>2, <2>1, <2>2
<1>5. ASSUME NEW o \in Options, change_options(o)
      PROVE  UserMove /\ overlap' = overlap
  <2> DEFINE x == Call("options?", "", o)
  <2>1. x \in Item /\ x.at = "options?"
    BY DEF Call, Item
  <2>2. /\ calls' = calls \/ calls' = Append(calls, x)
        /\ UNCHANGED <<isRunning, frames, overlap>>
    BY <1>5 DEF change_options, Await
  <2> HIDE DEF x
  <2> QED BY <2>1, <2>2 DEF UserMove
<1>6. CASE loop_begins
  <2> DEFINE x == Call("run_chunk", "", NoOptions)
  <2>1. x \in Item /\ x.at = "run_chunk"
    BY DEF Call, Item
  <2>2. /\ frames > 0 /\ frames' = frames - 1 /\ isRunning' = isRunning /\ overlap' = overlap
        /\ (isRunning /\ calls' = Append(calls, x)) \/ (~isRunning /\ calls' = calls)
    BY <1>6 DEF loop_begins, Await
  <2> HIDE DEF x
  <2> QED BY <2>1, <2>2 DEF UserMove
<1> QED BY <1>1, <1>3, <1>4, <1>5, <1>6 DEF User

\* A wait for any of some calls is one for one of them.
LEMMA WaitsFor ==
  /\ \A K, L : K \subseteq L => (Waits(K) => Waits(L)) /\ (Waits(K)' => Waits(L)')
  /\ \A K : Called(K) => Waits(K)
  /\ \A K, r : Told(K, r) => Waits(K)
BY DEF Waits, Called, Told

\* Everything that waits is an item.
LEMMA WaitingItems ==
  ASSUME TypeInv
  PROVE  Items(calls) \subseteq Item /\ Items(answers) \subseteq Item
<1>1. \A s \in Seq(Item) : Items(s) \subseteq Item
  BY DEF Items
<1> QED BY <1>1 DEF TypeInv

\* The user and the frames keep the page calm.
LEMMA CalmUser ==
  ASSUME TypeInv, Calm, UserMove, UNCHANGED <<pyVars, answers, run_enabled, label>>
  PROVE  Calm'
<1>0. StartInv /\ LoopInv /\ ChunkInv /\ StopInv /\ LabelInv /\ (running => file_loaded)
  BY DEF Calm
<1>1. UNCHANGED <<file_loaded, running, should_reset_pc, label, run_enabled, answers>>
  BY DEF pyVars
<1>2. Items(answers)' = Items(answers) /\ \A K, r : Told(K, r)' <=> Told(K, r)
  BY <1>1 DEF Items, Told
<1>3. isRunning \in BOOLEAN /\ frames \in Nat /\ frames \in {0, 1} /\ calls \in Seq(Item)
  BY <1>0 DEF TypeInv, LoopInv
<1>4. CASE /\ calls' = calls
           /\ \/ UNCHANGED <<isRunning, frames>>
              \/ ~isRunning /\ ~isRunning' /\ frames > 0 /\ frames' = frames - 1
  <2>1. (isRunning' <=> isRunning) /\ (frames' = frames \/ (~isRunning /\ ~isRunning' /\ frames = 1 /\ frames' = 0))
    BY <1>3, <1>4
  <2>2. Items(calls)' = Items(calls)
    BY <1>4 DEF Items
  <2>3. \A K : (Called(K)' <=> Called(K)) /\ (Waits(K)' <=> Waits(K))
    BY <1>2, <2>2 DEF Called, Waits
  <2>4. \A K, L : PageOrder(K, L)' <=> PageOrder(K, L)
    BY <1>1, <1>4 DEF PageOrder, Kind
  <2>5. StartInv'
    BY <1>0, <1>1, <1>2, <2>1, <2>2, <2>3, <2>4 DEF StartInv
  <2>6. LoopInv'
    BY <1>0, <1>1, <2>1, <2>3, <2>4 DEF LoopInv
  <2>7. ChunkInv'
    BY <1>0, <1>1, <1>2, <1>4, <2>1, <2>2, <2>3 DEF ChunkInv, Kind
  <2>8. StopInv'
    BY <1>0, <1>1, <2>1, <2>3, <2>4 DEF StopInv
  <2>9. LabelInv'
    BY <1>0, <1>1, <1>2, <2>2 DEF LabelInv, Due, EndKnown, EndTold
  <2> QED BY <1>0, <1>1, <2>5, <2>6, <2>7, <2>8, <2>9 DEF Calm
<1>5. ASSUME NEW x \in Item, calls' = Append(calls, x),
             \/ /\ x.at = "start" /\ run_enabled /\ ~isRunning /\ UNCHANGED <<isRunning, frames>>
                /\ frames = 0 /\ ~Waits(Loads \union Tokens \union {"start", "exit_info"})
             \/ /\ x.at = "stop" /\ x.why # "loop"
                /\ isRunning /\ ~isRunning' /\ frames' = frames
             \/ /\ x.at \in {"reset", "init?"} /\ ~Waits({"start"})
                /\ ~isRunning /\ UNCHANGED <<isRunning, frames>>
             \/ x.at = "options?" /\ UNCHANGED <<isRunning, frames>>
             \/ /\ x.at = "run_chunk" /\ isRunning /\ UNCHANGED isRunning
                /\ frames > 0 /\ frames' = frames - 1
      PROVE  Calm'
  <2>1. /\ Items(calls)' = Items(calls) \union {x}
        /\ \A K : Called(K)' <=> Called(K) \/ x.at \in K
    BY <1>5, Awaited
  <2>2. \A K : Waits(K)' <=> Waits(K) \/ x.at \in K
    BY <1>2, <2>1 DEF Waits
  <2>3. /\ isRunning => ~Waits({"start"}) /\ ~Waits({"stop"}) /\ ~Waits(Loads \union {"stop"})
        /\ Waits({"start"}) => ~isRunning
    BY <1>0, WaitsFor DEF LoopInv, StartInv
  <2>4. x.at = "start" => ~Waits({"start"}) /\ ~Waits({"stop"})
    BY <1>0, <1>5, WaitsFor DEF StopInv
  <2>5. StartInv'
    <3>1. ASSUME Waits({"start"})'
          PROVE  /\ ~isRunning' /\ frames' = 0
                 /\ \A z \in Items(calls)' \union Items(answers)' : z.at \in {"start", "options?", "update_options"}
      <4>1. CASE x.at = "start"
        <5>1. \A z \in Items(calls) \union Items(answers) :
                z.at \notin Loads \union Tokens \union {"start", "exit_info", "stop"}
          BY <1>5, <2>4, <4>1 DEF Waits
        <5>2. \A z \in Item : \/ z.at \in Loads \union Tokens \union {"start", "exit_info", "stop"}
                              \/ z.at \in {"options?", "update_options"}
          BY DEF Item, Loads, Tokens
        <5>3. \A z \in Items(calls) \union Items(answers) : z.at \in {"options?", "update_options"}
          BY <5>1, <5>2, WaitingItems
        <5> QED BY <1>2, <1>5, <2>1, <4>1, <5>3
      <4>2. CASE x.at # "start"
        <5>1. Waits({"start"})
          BY <2>2, <3>1, <4>2
        <5>2. x.at = "options?" /\ UNCHANGED <<isRunning, frames>>
          BY <1>5, <2>3, <4>2, <5>1
        <5> QED BY <1>0, <1>2, <2>1, <5>1, <5>2 DEF StartInv
      <4> QED BY <4>1, <4>2
    <3>2. PageOrder({"start"}, {"start"})'
      BY <1>0, <1>1, <1>5, <2>4, OrderByUser DEF StartInv
    <3> QED BY <1>0, <1>1, <1>2, <3>1, <3>2 DEF StartInv
  <2>6. x.at = "run_chunk" => frames = 1 /\ frames' = 0 /\ running /\ ~Waits(Tokens) /\ ~Waits({"stop"})
    <3>1. x.at = "run_chunk" => frames = 1 /\ frames' = 0 /\ isRunning
      BY <1>3, <1>5
    <3> QED BY <1>0, <2>3, <3>1 DEF LoopInv, ChunkInv
  <2>7. isRunning' => isRunning /\ x.at \in {"options?", "run_chunk"}
    BY <1>5
  <2>8. LoopInv'
    <3>1. isRunning' => (~run_enabled /\ ~Waits(Loads \union {"start", "stop", "exit_info"}))'
      BY <1>0, <1>1, <2>2, <2>7 DEF LoopInv, Loads
    <3>2. frames' \in {0, 1} /\ (frames' = 1 => ~Waits(Tokens)')
      BY <1>0, <1>3, <1>5, <2>2, <2>6 DEF LoopInv, Tokens
    <3>3. x.at \in Tokens => ~Waits(Tokens)
      BY <1>5, <2>6 DEF Tokens
    <3>4. PageOrder(Tokens, Tokens)'
      BY <1>0, <1>1, <1>5, <3>3, OrderByUser DEF LoopInv
    <3> QED BY <3>1, <3>2, <3>4 DEF LoopInv, Loads, Tokens
  <2>9. ChunkInv'
    <3>1. ASSUME isRunning', ~running'
          PROVE  /\ frames' = 0 /\ ~Called({"run_chunk"})'
                 /\ ~Told({"run_chunk"}, TRUE)' /\ ~Waits({"raised"})'
                 /\ \A z \in Items(calls)' \union Items(answers)' : z.at = "count" => ~z.res
      <4>1. x.at = "options?" /\ isRunning /\ ~running /\ frames' = frames
        BY <1>1, <1>5, <2>6, <2>7, <3>1
      <4> QED BY <1>0, <1>2, <2>1, <2>2, <4>1 DEF ChunkInv
    <3>2. Called({"run_chunk"})' => running'
      BY <1>0, <1>1, <2>1, <2>6 DEF ChunkInv
    <3>3. NoneBefore(calls', Kind({"stop"}), Kind({"run_chunk"}))
      <4>1. x \in Kind({"run_chunk"}) => Items(calls) \intersect Kind({"stop"}) = {}
        BY <2>6 DEF Kind, Waits
      <4> QED BY <1>0, <1>3, <1>5, <4>1, Added DEF ChunkInv
    <3> QED BY <3>1, <3>2, <3>3 DEF ChunkInv, Kind
  <2>10. StopInv'
    <3>1. Waits({"stop"})' => ~run_enabled' /\ ~isRunning'
      <4>1. CASE x.at = "stop"
        BY <1>0, <1>1, <1>5, <4>1 DEF LoopInv
      <4>2. CASE x.at # "stop"
        BY <1>0, <1>1, <2>2, <2>7, <4>2 DEF StopInv
      <4> QED BY <4>1, <4>2
    <3>2. x.at \in {"stop"} => ~Waits(Loads \union {"stop"})
      BY <1>5, <2>3
    <3>3. PageOrder(Loads \union {"stop"}, {"stop"})'
      BY <1>0, <1>1, <1>5, <3>2, OrderByUser DEF StopInv
    <3> QED BY <3>1, <3>3 DEF StopInv, Loads
  <2>11. LabelInv'
    <3>1. ~EndKnown(x)
      BY <1>5 DEF EndKnown
    <3>2. Due' <=> Due
      BY <1>2, <2>1, <3>1 DEF Due, EndKnown, EndTold
    <3> QED BY <1>0, <1>1, <1>2, <3>2 DEF LabelInv
  <2> QED BY <1>0, <1>1, <2>5, <2>8, <2>9, <2>10, <2>11 DEF Calm
<1> QED BY <1>4, <1>5 DEF UserMove

\* browser_entry.py: what each function does to what the label depends on.
LEMMA PythonEffects ==
  ASSUME TypeInv, NEW y \in Item, Served(y), file_loaded => initialized
  PROVE  \/ y.at = "start" /\ y.res /\ running' /\ ~should_reset_pc' /\ file_loaded'
         \/ y.at = "stop" /\ ~running' /\ UNCHANGED <<should_reset_pc, file_loaded>>
         \/ /\ y.at \in {"reset", "load_file"} /\ running' = running
            /\ y.res => should_reset_pc'
            /\ ~y.res => ~file_loaded' /\ should_reset_pc' = should_reset_pc
         \/ y.at = "run_chunk" /\ ~y.res /\ running /\ ~running' /\ should_reset_pc' /\ file_loaded' = file_loaded
         \/ y.at = "run_chunk" /\ ~running /\ UNCHANGED <<running, should_reset_pc, file_loaded>>
         \/ /\ \/ y.at \in {"start", "initialize", "init?", "options?", "update_options", "exit_info"}
               \/ y.at = "count" /\ y.res = Head(calls).res
               \/ y.at = "run_chunk" /\ y.res /\ running
               \/ y.at = "raised" /\ running
            /\ y.at = "start" => ~y.res
            /\ UNCHANGED <<running, should_reset_pc, file_loaded>>
<1>0. /\ y.res \in BOOLEAN
      /\ initialized \in BOOLEAN /\ file_loaded \in BOOLEAN /\ running \in BOOLEAN
      /\ should_reset_pc \in BOOLEAN
  BY DEF Item, TypeInv
<1> USE DEF pyVars
<1>1. CASE y.at = "start" /\ start(y.res)
  BY <1>0, <1>1 DEF start
<1>2. CASE y.at = "stop" /\ stop(y.res)
  BY <1>0, <1>2 DEF stop
<1>3. CASE y.at = "reset" /\ reset(js_options, y.res)
  <2>1. running' = running
    BY <1>3 DEF reset, Rebuilt
  <2>2. y.res => should_reset_pc'
    BY <1>0, <1>3 DEF reset, Rebuilt, Loaded
  <2>3. ~y.res => ~file_loaded' /\ should_reset_pc' = should_reset_pc
    BY <1>0, <1>3 DEF reset, Rebuilt, Loaded
  <2> QED BY <1>3, <2>1, <2>2, <2>3
<1>4. CASE y.at = "load_file" /\ load_file(js_options, y.res)
  <2>1. running' = running
    BY <1>4 DEF load_file, Rebuilt
  <2>2. y.res => should_reset_pc'
    BY <1>0, <1>4 DEF load_file, Rebuilt, Loaded
  <2>3. ~y.res => ~file_loaded' /\ should_reset_pc' = should_reset_pc
    BY <1>0, <1>4 DEF load_file, Rebuilt, Loaded
  <2> QED BY <1>4, <2>1, <2>2, <2>3
<1>5. CASE y.at = "run_chunk" /\ run_chunk(y.res)
  <2>1. CASE ~running
    BY <1>0, <1>5, <2>1 DEF run_chunk
  <2>2. CASE running /\ y.res
    BY <1>0, <1>5, <2>2 DEF run_chunk
  <2>3. CASE running /\ ~y.res
    BY <1>0, <1>5, <2>3 DEF run_chunk
  <2> QED BY <2>1, <2>2, <2>3
<1>6. CASE y.at = "initialize" /\ initialize(js_options, y.res)
  BY <1>6 DEF initialize
<1>7. CASE \/ y.at = "update_options" /\ update_options(js_options, y.res)
           \/ y.at \in {"init?", "options?"} /\ query(y.res)
  BY <1>7 DEF update_options, query
<1>8. CASE /\ \/ y.at = "exit_info" 
              \/ y.at = "count" /\ y.res = Head(calls).res
              \/ y.at = "raised" /\ running
           /\ UNCHANGED pyVars
  BY <1>8
<1> QED BY <1>1, <1>2, <1>3, <1>4, <1>5, <1>6, <1>7, <1>8 DEF Served

\* Python keeps the page calm.
LEMMA CalmPython ==
  ASSUME Inv, Calm, python
  PROVE  Calm'
<1> DEFINE c == Head(calls)
<1>0. /\ TypeInv /\ RunInv /\ (file_loaded => initialized)
      /\ StartInv /\ LoopInv /\ ChunkInv /\ StopInv /\ LabelInv /\ (running => file_loaded)
  BY DEF Inv, LoadInv, Calm
<1>1. /\ calls # <<>> /\ c \in Item /\ calls' = Tail(calls) /\ UNCHANGED jsVars
      /\ Items(calls) = {c} \union Items(calls)'
  BY <1>0, PythonShape
<1>2. PICK y \in Item : /\ answers' = Append(answers, y) /\ y.why = c.why
                        /\ Items(answers)' = Items(answers) \union {y}
                        /\ Served(y)
  BY <1>0, PythonShape
<1>3. UNCHANGED <<isRunning, run_enabled, label, frames>>
  BY <1>1 DEF jsVars, buttons
<1>4. calls \in Seq(Item) /\ isRunning \in BOOLEAN /\ y.res \in BOOLEAN /\ c.res \in BOOLEAN
  BY <1>0, <1>1 DEF TypeInv, Item
<1>5. y.at = c.at \/ (y.at = "raised" /\ c.at = "run_chunk")
  BY <1>0, <1>2, PythonFlags
<1>6. /\ \A K : Called(K)' => Called(K)
      /\ \A K : ("run_chunk" \in K <=> "raised" \in K) => (Waits(K)' <=> Waits(K))
      /\ \A K, r : Told(K, r)' <=> Told(K, r) \/ (y.at \in K /\ y.res = r)
  BY <1>1, <1>2, <1>5 DEF Called, Waits, Told
<1>7. ASSUME NEW K, NEW L, PageOrder(K, L), "raised" \in K => "run_chunk" \in K, "raised" \in L => "run_chunk" \in L
      PROVE  PageOrder(K, L)'
  BY <1>0, <1>1, <1>2, <1>5, <1>7, OrderByPython
<1>8. NoneBefore(calls, Kind({"stop"}), Kind({"run_chunk"}))
  BY <1>0 DEF ChunkInv
<1>9. /\ NoneBefore(calls', Kind({"stop"}), Kind({"run_chunk"}))
      /\ c.at = "stop" => ~Called({"run_chunk"})'
  <2>1. /\ NoneBefore(calls', Kind({"stop"}), Kind({"run_chunk"}))
        /\ c \in Kind({"stop"}) => Items(Tail(calls)) \intersect Kind({"run_chunk"}) = {}
    BY <1>1, <1>4, <1>8, Removed
  <2>2. Items(calls)' = Items(Tail(calls)) /\ Items(calls)' \subseteq Item
    BY <1>0, <1>1, WaitingItems DEF Items
  <2> QED BY <1>1, <2>1, <2>2 DEF Kind, Called
<1>10. c.at \in Tokens => \A z \in Items(calls)' \union Items(answers) : z.at \notin Tokens
  <2>1. Ordered(answers, calls, Kind(Tokens), Kind(Tokens), Kind(Tokens), Kind(Tokens))
    BY <1>0 DEF LoopInv, PageOrder
  <2>2. c.at \in Tokens => c \in Kind(Tokens) /\ c \in Items(calls)
    BY <1>1 DEF Kind
  <2>3. c.at \in Tokens => Items(answers) \intersect Kind(Tokens) = {}
    BY <2>1, <2>2 DEF Ordered
  <2>4. NoneBefore(calls, Kind(Tokens), Kind(Tokens))
    BY <2>1 DEF Ordered
  <2>5. c.at \in Tokens => Items(Tail(calls)) \intersect Kind(Tokens) = {}
    BY <1>1, <1>4, <2>2, <2>4, Removed
  <2>6. Items(calls)' = Items(Tail(calls)) /\ Items(calls)' \subseteq Item /\ Items(answers) \subseteq Item
    BY <1>0, <1>1, WaitingItems DEF Items
  <2> QED BY <2>3, <2>5, <2>6 DEF Kind
<1>11. Waits({"start"}) => c.at \in {"start", "options?", "update_options"}
  BY <1>0, <1>1 DEF StartInv
<1>12. c.at \in Loads => ~running
  <2> SUFFICES ASSUME c.at \in Loads, running PROVE FALSE
    OBVIOUS
  <2>1. Waits(Loads)
    BY <1>1 DEF Waits
  <2>2. ~isRunning
    BY <1>0, <2>1, WaitsFor DEF LoopInv
  <2>3. ~Told({"start"}, TRUE)
    BY <1>11, WaitsFor DEF Loads
  <2>4. Called({"stop"})
    BY <1>0, <2>2, <2>3 DEF RunInv
  <2>5. NoneBefore(calls, Kind(Loads \union {"stop"}), Kind({"stop"}))
    BY <1>0 DEF StopInv, PageOrder, Ordered
  <2>6. c \in Kind(Loads \union {"stop"}) /\ c.at # "stop"
    BY <1>1 DEF Kind, Loads
  <2>7. Items(Tail(calls)) \intersect Kind({"stop"}) = {}
    BY <1>1, <1>4, <2>5, <2>6, Removed
  <2>8. Items(calls)' = Items(Tail(calls)) /\ Items(calls)' \subseteq Item
    BY <1>0, <1>1, WaitingItems DEF Items
  <2> QED BY <1>1, <2>4, <2>6, <2>7, <2>8 DEF Called, Kind
<1> HIDE DEF c
<1>13. \/ y.at = "start" /\ y.res /\ running' /\ ~should_reset_pc' /\ file_loaded'
       \/ y.at = "stop" /\ ~running' /\ UNCHANGED <<should_reset_pc, file_loaded>>
       \/ /\ y.at \in {"reset", "load_file"} /\ running' = running
          /\ y.res => should_reset_pc'
          /\ ~y.res => ~file_loaded' /\ should_reset_pc' = should_reset_pc
       \/ y.at = "run_chunk" /\ ~y.res /\ running /\ ~running' /\ should_reset_pc' /\ file_loaded' = file_loaded
       \/ /\ \/ y.at \in {"start", "initialize", "init?", "options?", "update_options", "exit_info"}
             \/ y.at = "count" /\ y.res = c.res
             \/ y.at = "run_chunk" /\ y.res /\ running
             \/ y.at = "raised" /\ running
          /\ y.at = "start" => ~y.res
          /\ UNCHANGED <<running, should_reset_pc, file_loaded>>
  <2>1. y.at = "run_chunk" => running
    BY <1>0, <1>1, <1>5 DEF ChunkInv, Called
  <2> QED BY <1>0, <1>2, <2>1, PythonEffects DEF c
<1>14. StartInv'
  <2>1. Waits({"start"})' => /\ ~isRunning' /\ frames' = 0
                             /\ \A x \in Items(calls)' \union Items(answers)' : x.at \in {"start", "options?", "update_options"}
    BY <1>0, <1>1, <1>2, <1>3, <1>5, <1>6, <1>11 DEF StartInv
  <2>2. PageOrder({"start"}, {"start"})'
    BY <1>0, <1>7 DEF StartInv
  <2>3. Told({"start"}, TRUE)' => running' /\ ~should_reset_pc'
    <3>1. CASE y.at = "start" /\ y.res
      BY <1>13, <3>1
    <3>2. CASE ~(y.at = "start" /\ y.res) /\ Told({"start"}, TRUE)'
      <4>1. Told({"start"}, TRUE)
        <5>1. ~(y.at \in {"start"} /\ y.res = TRUE)
          BY <3>2
        <5> QED BY <1>6, <3>2, <5>1
      <4>2. y.at \in {"start", "options?", "update_options"}
        BY <1>5, <1>11, <4>1, WaitsFor
      <4>3. UNCHANGED <<running, should_reset_pc>>
        BY <1>13, <3>2, <4>2
      <4> QED BY <1>0, <4>1, <4>3 DEF StartInv
    <3> QED BY <3>1, <3>2
  <2> QED BY <2>1, <2>2, <2>3 DEF StartInv
<1>15. LoopInv'
  <2>1. /\ Waits(Loads \union {"start", "stop", "exit_info"})' <=> Waits(Loads \union {"start", "stop", "exit_info"})
        /\ Waits(Tokens)' <=> Waits(Tokens)
    BY <1>6 DEF Loads, Tokens
  <2>2. PageOrder(Tokens, Tokens)'
    BY <1>0, <1>7 DEF LoopInv, Tokens
  <2> QED BY <1>0, <1>3, <2>1, <2>2 DEF LoopInv, Tokens, Loads
<1>16. StopInv'
  <2>1. PageOrder(Loads \union {"stop"}, {"stop"})'
    BY <1>0, <1>7 DEF StopInv, Loads
  <2> QED BY <1>0, <1>3, <1>6, <2>1 DEF StopInv, Loads
<1>17. ASSUME y.at = "run_chunk", ~y.res
       PROVE  /\ frames = 0 /\ ~Called({"run_chunk"})' /\ ~Told({"run_chunk"}, TRUE)' /\ ~Waits({"raised"})'
              /\ \A z \in Items(calls)' \union Items(answers)' : z.at # "count"
  <2>1. c.at \in Tokens
    BY <1>5, <1>17 DEF Tokens
  <2>2. Waits(Tokens)
    BY <1>1, <2>1 DEF Waits
  <2>3. frames = 0
    BY <1>0, <2>2 DEF LoopInv
  <2>4. \A z \in Items(calls)' \union Items(answers) : z.at \notin {"run_chunk", "raised", "count"}
    BY <1>10, <2>1 DEF Tokens
  <2>5. ~Told({"run_chunk"}, TRUE)
    BY <2>4 DEF Told
  <2>6. ~(y.res = TRUE)
    BY <1>17
  <2>7. ~Told({"run_chunk"}, TRUE)'
    BY <1>6, <2>5, <2>6
  <2> QED BY <1>2, <1>17, <2>3, <2>4, <2>7 DEF Called, Waits
<1>18. ChunkInv'
  <2>1. ASSUME isRunning', ~running'
        PROVE  /\ frames' = 0 /\ ~Called({"run_chunk"})'
               /\ ~Told({"run_chunk"}, TRUE)' /\ ~Waits({"raised"})'
               /\ \A z \in Items(calls)' \union Items(answers)' : z.at = "count" => ~z.res
    <3>1. ~Waits(Loads \union {"start", "stop", "exit_info"})
      BY <1>0, <1>3, <2>1 DEF LoopInv
    <3>2. c.at \notin Loads \union {"start", "stop", "exit_info"}
      BY <1>1, <3>1 DEF Waits
    <3>3. CASE y.at = "run_chunk" /\ ~y.res
      BY <1>3, <1>17, <3>3
    <3>4. CASE ~(y.at = "run_chunk" /\ ~y.res)
      <4>1. /\ y.at \in {"options?", "update_options"} \/ (y.at = "count" /\ y.res = c.res /\ c.at = "count")
            /\ ~running
        BY <1>5, <1>13, <2>1, <3>2, <3>4 DEF Loads
      <4>2. /\ frames = 0 /\ ~Called({"run_chunk"})
            /\ ~Told({"run_chunk"}, TRUE) /\ ~Waits({"raised"})
            /\ \A z \in Items(calls) \union Items(answers) : z.at = "count" => ~z.res
        BY <1>0, <1>3, <2>1, <4>1 DEF ChunkInv
      <4>3. ~Called({"run_chunk"})' /\ ~Told({"run_chunk"}, TRUE)'
        BY <1>6, <4>1, <4>2
      <4>4. ~Waits({"raised"})'
        BY <1>1, <1>2, <4>1, <4>2 DEF Waits
      <4>5. y.at = "count" => ~y.res
        BY <1>1, <4>1, <4>2
      <4> QED BY <1>1, <1>2, <1>3, <4>2, <4>3, <4>4, <4>5
    <3> QED BY <3>3, <3>4
  <2>2. Called({"run_chunk"})' => running'
    <3> SUFFICES ASSUME Called({"run_chunk"})' PROVE running'
      OBVIOUS
    <3>1. running
      BY <1>0, <1>6 DEF ChunkInv
    <3>2. y.at # "stop" /\ ~(y.at = "run_chunk" /\ ~y.res)
      BY <1>5, <1>9, <1>17
    <3> QED BY <1>13, <3>1, <3>2
  <2> QED BY <1>9, <2>1, <2>2 DEF ChunkInv, Kind
<1>19. LabelInv'
  <2>1. CASE y.at = "start" /\ y.res /\ running' /\ ~should_reset_pc' /\ file_loaded'
    <3>1. Waits({"start"}) /\ c.at = "start"
      BY <1>1, <1>5, <2>1 DEF Waits
    <3>2. \A x \in Items(calls)' \union Items(answers)' : x.at \in {"start", "options?", "update_options"}
      BY <1>0, <1>1, <1>2, <2>1, <3>1 DEF StartInv
    <3>3. ~Due'
      BY <3>2 DEF Due, EndKnown, EndTold
    <3>4. Told({"start"}, TRUE)'
      <4>1. y.res = TRUE
        BY <1>4, <2>1
      <4> QED BY <1>6, <2>1, <4>1
    <3> QED BY <2>1, <3>3, <3>4 DEF LabelInv
  <2>2. Told({"start"}, TRUE) => Told({"start"}, TRUE)'
    BY <1>6
  <2>3. EndKnown(c) => EndKnown(y)
    <3>1. c.at = "count" => y.res = c.res
      BY <1>5, <1>13
    <3> QED BY <1>2, <1>5, <3>1 DEF EndKnown
  <2>4. Due => Due'
    BY <1>1, <1>2, <2>3 DEF Due, EndKnown, EndTold
  <2>5. EndKnown(y) => EndKnown(c)
    <3>1. c.at = "count" => y.res = c.res
      BY <1>5, <1>13
    <3> QED BY <1>2, <1>5, <3>1 DEF EndKnown
  <2>6. Due' => Due \/ EndTold(y)
    BY <1>1, <1>2, <2>5 DEF Due, EndKnown, EndTold
  <2>7. EndTold(y) => Due'
    BY <1>2 DEF Due, EndTold
  <2>8. CASE y.at \in {"reset", "load_file"} /\ y.res /\ should_reset_pc'
    <3>1. Due'
      BY <2>7, <2>8 DEF EndTold
    <3> QED BY <2>8, <3>1 DEF LabelInv
  <2>9. CASE y.at \in {"reset", "load_file"} /\ ~y.res /\ ~file_loaded' /\ should_reset_pc' = should_reset_pc
    <3>1. ~EndTold(y)
      BY <2>9 DEF EndTold
    <3> QED BY <1>0, <2>6, <2>9, <3>1 DEF LabelInv
  <2>10. CASE y.at = "run_chunk" /\ ~y.res /\ should_reset_pc'
    <3>1. Due'
      BY <2>7, <2>10 DEF EndTold
    <3> QED BY <2>10, <3>1 DEF LabelInv
  <2>11. CASE ~EndTold(y) /\ UNCHANGED <<should_reset_pc, file_loaded>>
    BY <1>0, <1>3, <2>2, <2>4, <2>6, <2>11 DEF LabelInv
  <2>12. CASE y.at = "stop" /\ UNCHANGED <<should_reset_pc, file_loaded>>
    BY <2>11, <2>12 DEF EndTold
  <2>13. CASE /\ \/ y.at \in {"start", "initialize", "init?", "options?", "update_options", "exit_info"}
                 \/ y.at = "count" /\ y.res = c.res
                 \/ y.at = "run_chunk" /\ y.res /\ running
                 \/ y.at = "raised" /\ running
              /\ UNCHANGED <<should_reset_pc, file_loaded>>
    BY <2>11, <2>13 DEF EndTold
  <2> QED BY <1>13, <2>1, <2>8, <2>9, <2>10, <2>12, <2>13
<1>20. running' => file_loaded'
  <2>1. y.at \in {"reset", "load_file"} => ~running
    BY <1>5, <1>12 DEF Loads
  <2> QED BY <1>0, <1>13, <2>1
<1> QED BY <1>14, <1>15, <1>16, <1>18, <1>19, <1>20 DEF Calm

\* The handlers that go on with the answer h and make the calls N, none or one.
Making(N) ==
  \/ N = {} /\ calls' = calls
  \/ \E x \in Item : N = {x} /\ calls' = Append(calls, x)

Same == UNCHANGED <<isRunning, run_enabled, label, frames>>

PageMove(h, N) ==
  \/ /\ h.at = "start" /\ h.res /\ N = {}
     /\ isRunning' /\ ~run_enabled' /\ label' = "Resume" /\ frames' = frames + 1
  \/ h.at = "start" /\ ~h.res /\ N = {} /\ Same
  \/ /\ h.at = "stop" /\ run_enabled' /\ UNCHANGED <<isRunning, label, frames>>
     /\ \/ h.why # "loop" /\ \A x \in N : x.at \in {"reset", "init?"}
        \/ h.why = "loop" /\ N # {} /\ \A x \in N : x.at = "exit_info"
  \/ /\ h.at = "reset" /\ N = {} /\ label' = (IF h.res THEN "Run" ELSE label)
     /\ UNCHANGED <<isRunning, run_enabled, frames>>
  \/ /\ h.at \in {"init?", "initialize"} /\ Same
     /\ \A x \in N : x.at \in {"load_file", "initialize"}
  \/ /\ h.at = "load_file" \/ (h.at = "initialize" /\ ~h.res)
     /\ N = {} /\ label' = (IF h.res THEN "Run" ELSE label)
     /\ run_enabled' = h.res /\ UNCHANGED <<isRunning, frames>>
  \/ /\ h.at \in {"options?", "update_options"} /\ Same
     /\ \A x \in N : x.at = "update_options"
  \/ /\ h.at = "run_chunk" /\ Same
     /\ N # {} /\ \A x \in N : x.at = "count" /\ x.res = h.res
  \/ /\ h.at = "raised" /\ UNCHANGED <<run_enabled, label, frames>>
     /\ \/ isRunning /\ ~isRunning' /\ \A x \in N : x.at = "stop" /\ x.why = "button"
        \/ ~isRunning /\ ~isRunning' /\ N = {}
  \/ h.at = "count" /\ h.res /\ N = {} /\ frames' = frames + 1 /\ UNCHANGED <<isRunning, run_enabled, label>>
  \/ /\ h.at = "count" /\ ~h.res /\ UNCHANGED <<run_enabled, label, frames>> /\ N # {}
     /\ \/ isRunning /\ ~isRunning' /\ \A x \in N : x.at = "stop" /\ x.why = "loop"
        \/ ~isRunning /\ ~isRunning' /\ \A x \in N : x.at = "exit_info"
  \/ /\ h.at = "exit_info" /\ N = {} /\ label' = "Run" /\ UNCHANGED <<isRunning, run_enabled, frames>>

\* stopEmulation, at once or once stop was answered: what follows.
LEMMA FollowsStop ==
  ASSUME TypeInv, NEW why, AfterCall(why)
  PROVE  \E N : /\ Making(N)
                /\ why = "button" => N = {}
                /\ \/ why # "loop" /\ \A x \in N : x.at \in {"reset", "init?"}
                   \/ why = "loop" /\ N # {} /\ \A x \in N : x.at = "exit_info"
<1>1. ui \in Options \union {NoOptions}
  BY DEF TypeInv
<1>2. CASE why = "button" /\ calls' = calls
  BY <1>2 DEF Making
<1>3. CASE why = "loop" /\ calls' = Append(calls, Call("exit_info", "", NoOptions))
  <2> DEFINE e == Call("exit_info", "", NoOptions)
  <2>1. e \in Item /\ e.at = "exit_info"
    BY DEF Call, Item
  <2>2. calls' = Append(calls, e)
    BY <1>3
  <2> HIDE DEF e
  <2>3. Making({e})
    BY <2>1, <2>2 DEF Making
  <2> WITNESS {e}
  <2> QED BY <1>3, <2>1, <2>3
<1>4. CASE why = "reset" /\ calls' = Append(calls, Call("reset", "", NoOptions))
  <2> DEFINE e == Call("reset", "", NoOptions)
  <2>1. e \in Item /\ e.at = "reset"
    BY DEF Call, Item
  <2>2. calls' = Append(calls, e)
    BY <1>4
  <2> HIDE DEF e
  <2>3. Making({e})
    BY <2>1, <2>2 DEF Making
  <2> WITNESS {e}
  <2> QED BY <1>4, <2>1, <2>3
<1>5. CASE why = "load" /\ calls' = Append(calls, Call("init?", "", ui))
  <2> DEFINE e == Call("init?", "", ui)
  <2>1. e \in Item /\ e.at = "init?"
    BY <1>1 DEF Call, Item
  <2>2. calls' = Append(calls, e)
    BY <1>5
  <2> HIDE DEF e
  <2>3. Making({e})
    BY <2>1, <2>2 DEF Making
  <2> WITNESS {e}
  <2> QED BY <1>5, <2>1, <2>3
<1> QED BY <1>2, <1>3, <1>4, <1>5 DEF AfterCall

\* stopEmulation from within runEmulationLoop.
LEMMA StopsLoop ==
  ASSUME TypeInv, NEW why \in {"button", "loop"}, Stopping(why, AfterStop(why))
  PROVE  \E N : /\ Making(N) /\ ~isRunning' /\ (why = "loop" => N # {})
                /\ \/ isRunning /\ \A x \in N : x.at = "stop" /\ x.why = why
                   \/ ~isRunning /\ why = "button" /\ N = {}
                   \/ ~isRunning /\ why = "loop" /\ \A x \in N : x.at = "exit_info"
<1>1. CASE isRunning /\ isRunning' = FALSE /\ calls' = Append(calls, Call("stop", why, NoOptions))
  <2> DEFINE e == Call("stop", why, NoOptions)
  <2>1. e \in Item /\ e.at = "stop" /\ e.why = why
    BY DEF Call, Item
  <2>2. calls' = Append(calls, e)
    BY <1>1
  <2> HIDE DEF e
  <2>3. Making({e})
    BY <2>1, <2>2 DEF Making
  <2> QED BY <1>1, <2>1, <2>3
<1>2. CASE ~isRunning /\ isRunning' = isRunning /\ AfterCall(why)
  <2>1. ~isRunning'
    BY <1>2
  <2> QED BY <1>2, <2>1, FollowsStop
<1> QED BY <1>1, <1>2, StoppingIs

\* GoOn: these are the steps of the handlers that go on.
LEMMA PageMoves ==
  ASSUME TypeInv, GoOn
  PROVE  \E N : Making(N) /\ PageMove(Head(answers), N)
<1> DEFINE h == Head(answers)
<1> USE DEF buttons
<1>1. /\ h.res \in BOOLEAN /\ h.opts \in Options \union {NoOptions} /\ isRunning \in BOOLEAN
  BY GoOnShape DEF Item, TypeInv
<1>2. ASSUME calls' = calls PROVE Making({})
  BY <1>2 DEF Making
<1>3. CASE startEmulation
  <2>1. /\ h.at = "start" /\ calls' = calls
        /\ \/ h.res /\ isRunning' /\ ~run_enabled' /\ label' = "Resume" /\ frames' = frames + 1
           \/ ~h.res /\ Same
    BY <1>3 DEF startEmulation, Answered, Result, Same
  <2>2. PageMove(h, {})
    BY <2>1 DEF PageMove
  <2> QED BY <1>2, <2>1, <2>2
<1>4. CASE stopEmulation
  <2>1. /\ h.at = "stop" /\ run_enabled' /\ UNCHANGED <<isRunning, label, frames>> /\ AfterCall(h.why)
    BY <1>4, StoppingIs DEF stopEmulation, Answered
  <2>2. PICK N : /\ Making(N)
                 /\ \/ h.why # "loop" /\ \A x \in N : x.at \in {"reset", "init?"}
                    \/ h.why = "loop" /\ N # {} /\ \A x \in N : x.at = "exit_info"
    BY <2>1, FollowsStop
  <2>3. PageMove(h, N)
    BY <2>1, <2>2 DEF PageMove
  <2> QED BY <2>2, <2>3
<1>5. CASE resetEmulation
  <2>1. /\ h.at = "reset" /\ calls' = calls /\ label' = (IF h.res THEN "Run" ELSE label)
        /\ UNCHANGED <<isRunning, run_enabled, frames>>
    BY <1>5 DEF resetEmulation, Answered, Result
  <2>2. PageMove(h, {})
    BY <2>1 DEF PageMove
  <2> QED BY <1>2, <2>1, <2>2
<1>6. CASE load_begins
  <2> DEFINE at == IF h.res THEN "load_file" ELSE "initialize"
             e == Call(at, "", h.opts)
  <2>1. h.at \in {"init?", "initialize"} /\ Same /\ calls' = Append(calls, e)
    BY <1>6 DEF load_begins, Answered, Result, Await, Same
  <2>2. e \in Item /\ e.at \in {"load_file", "initialize"}
    BY <1>1 DEF Call, Item
  <2> HIDE DEF e
  <2>3. Making({e}) /\ PageMove(h, {e})
    BY <2>1, <2>2 DEF Making, PageMove
  <2> QED BY <2>3
<1>7. CASE load_ends
  <2>1. /\ h.at = "load_file" \/ (h.at = "initialize" /\ ~h.res)
        /\ calls' = calls /\ label' = (IF h.res THEN "Run" ELSE label)
        /\ run_enabled' = h.res /\ UNCHANGED <<isRunning, frames>>
    BY <1>7 DEF load_ends, Answered, Result
  <2>2. PageMove(h, {})
    BY <2>1 DEF PageMove
  <2> QED BY <1>2, <2>1, <2>2
<1>8. CASE updateOptions
  <2> DEFINE e == Call("update_options", "", NoOptions)
  <2>1. /\ h.at \in {"options?", "update_options"} /\ Same
        /\ calls' = calls \/ calls' = Append(calls, e)
    BY <1>8 DEF updateOptions, Answered, Await, Same
  <2>2. e \in Item /\ e.at = "update_options"
    BY DEF Call, Item
  <2> HIDE DEF e
  <2>3. PageMove(h, {}) /\ PageMove(h, {e})
    BY <2>1, <2>2 DEF PageMove
  <2>4. CASE calls' = calls
    BY <1>2, <2>3, <2>4
  <2>5. CASE calls' = Append(calls, e)
    <3>1. Making({e})
      BY <2>2, <2>5 DEF Making
    <3> QED BY <2>3, <3>1
  <2> QED BY <2>1, <2>4, <2>5
<1>9. CASE loop_counts
  <2> DEFINE e == [Call("count", "", NoOptions) EXCEPT !.res = Result]
  <2>1. h.at = "run_chunk" /\ Same /\ calls' = Append(calls, e)
    BY <1>9 DEF loop_counts, Answered, Same
  <2>2. e \in Item /\ e.at = "count" /\ e.res = h.res
    BY <1>1 DEF Call, Item, Result
  <2> HIDE DEF e
  <2>3. Making({e}) /\ PageMove(h, {e})
    BY <2>1, <2>2 DEF Making, PageMove
  <2> QED BY <2>3
<1>10. CASE loop_raised
  <2>1. h.at = "raised" /\ UNCHANGED <<run_enabled, label, frames>> /\ Stopping("button", AfterStop("button"))
    BY <1>10 DEF loop_raised, Answered
  <2>2. PICK N : /\ Making(N) /\ ~isRunning'
                 /\ \/ isRunning /\ \A x \in N : x.at = "stop" /\ x.why = "button"
                    \/ ~isRunning /\ N = {}
    BY <2>1, StopsLoop
  <2>3. PageMove(h, N)
    BY <2>1, <2>2 DEF PageMove
  <2> QED BY <2>2, <2>3
<1>11. CASE loop_ends /\ h.res
  <2>1. h.at = "count" /\ frames' = frames + 1 /\ UNCHANGED <<isRunning, run_enabled, label, calls>>
    BY <1>11 DEF loop_ends, Answered, Result
  <2>2. PageMove(h, {})
    BY <1>11, <2>1 DEF PageMove
  <2> QED BY <1>2, <2>1, <2>2
<1>12. CASE loop_ends /\ ~h.res
  <2>1. h.at = "count" /\ UNCHANGED <<run_enabled, label, frames>> /\ Stopping("loop", AfterStop("loop"))
    BY <1>12 DEF loop_ends, Answered, Result
  <2>2. PICK N : /\ Making(N) /\ ~isRunning' /\ N # {}
                 /\ \/ isRunning /\ \A x \in N : x.at = "stop" /\ x.why = "loop"
                    \/ ~isRunning /\ \A x \in N : x.at = "exit_info"
    BY <2>1, StopsLoop
  <2>3. PageMove(h, N)
    BY <1>12, <2>1, <2>2 DEF PageMove
  <2> QED BY <2>2, <2>3
<1>13. CASE exit_shown
  <2>1. h.at = "exit_info" /\ label' = "Run" /\ UNCHANGED <<isRunning, run_enabled, frames, calls>>
    BY <1>13 DEF exit_shown, Answered
  <2>2. PageMove(h, {})
    BY <2>1 DEF PageMove
  <2> QED BY <1>2, <2>1, <2>2
<1> QED
  BY <1>3, <1>4, <1>5, <1>6, <1>7, <1>8, <1>9, <1>10, <1>11, <1>12, <1>13 DEF GoOn

\* The handlers that go on keep the page calm.
LEMMA CalmPage ==
  ASSUME Inv, Calm, GoOn
  PROVE  Calm'
<1> DEFINE h == Head(answers)
           rest == Items(calls) \union Items(answers)'
<1>0. /\ TypeInv
      /\ StartInv /\ LoopInv /\ ChunkInv /\ StopInv /\ LabelInv /\ (running => file_loaded)
  BY DEF Inv, Calm
<1>1. /\ answers # <<>> /\ h \in Item /\ answers' = Tail(answers)
      /\ Items(answers) = {h} \union Items(answers)'
      /\ UNCHANGED <<running, should_reset_pc, file_loaded>>
  BY <1>0, GoOnShape DEF pyVars
<1>2. PICK N : Making(N) /\ PageMove(h, N)
  BY <1>0, PageMoves
<1>3. calls \in Seq(Item) /\ isRunning \in BOOLEAN /\ h.res \in BOOLEAN /\ frames \in {0, 1}
      /\ label \in {"Run", "Resume"}
  BY <1>0, <1>1 DEF TypeInv, Item, LoopInv
<1>4. Items(calls)' = Items(calls) \union N /\ N \subseteq Item
  <2>1. CASE N = {} /\ calls' = calls
    BY <2>1 DEF Items
  <2>2. CASE \E x \in Item : N = {x} /\ calls' = Append(calls, x)
    BY <1>0, <2>2, Awaited
  <2> QED BY <1>2, <2>1, <2>2 DEF Making
<1>5. ASSUME NEW K, NEW L, PageOrder(K, L), \A x \in N : x.at \in L => \A z \in rest : z.at \notin K
      PROVE  PageOrder(K, L)' /\ (h.at \in K => \A z \in rest : z.at \notin L)
  <2>1. /\ h.at \in K => \A z \in rest : z.at \notin L
        /\ calls' = calls => PageOrder(K, L)'
        /\ \A x \in Item :
             /\ calls' = Append(calls, x)
             /\ x.at \in L => \A z \in rest : z.at \notin K
             => PageOrder(K, L)'
    BY <1>0, <1>1, <1>5, OrderByPage
  <2> HIDE DEF rest
  <2> QED BY <1>2, <1>5, <2>1 DEF Making
<1>6. ASSUME NEW K, NEW L, PageOrder(K, L), h.at \in K
      PROVE  \A z \in rest : z.at \notin L
  BY <1>0, <1>1, <1>6, OrderByPage
<1>7. /\ \A K : Waits(K) <=> h.at \in K \/ \E z \in rest : z.at \in K
      /\ \A K : Waits(K)' <=> (\E z \in rest : z.at \in K) \/ \E x \in N : x.at \in K
      /\ \A K : Called(K)' <=> Called(K) \/ \E x \in N : x.at \in K
      /\ \A K, r : Told(K, r) <=> Told(K, r)' \/ (h.at \in K /\ h.res = r)
  BY <1>1, <1>4 DEF Waits, Called, Told
<1>8. /\ h.at \in Loads \union {"stop"} => \A z \in rest : z.at # "stop"
      /\ h.at \in Tokens => \A z \in rest : z.at \notin Tokens
      /\ h.at = "start" => \A z \in rest : z.at \in {"options?", "update_options"}
  <2>1. h.at = "start" => \A z \in rest : z.at \notin {"start"}
    BY <1>0, <1>6 DEF StartInv
  <2>2. h.at = "start" => \A z \in rest : z.at \in {"start", "options?", "update_options"}
    BY <1>0, <1>1, <1>7 DEF StartInv
  <2>3. h.at \in Loads \union {"stop"} => \A z \in rest : z.at \notin {"stop"}
    BY <1>0, <1>6 DEF StopInv
  <2>4. h.at \in Tokens => \A z \in rest : z.at \notin Tokens
    BY <1>0, <1>6 DEF LoopInv
  <2> HIDE DEF rest
  <2> QED BY <2>1, <2>2, <2>3, <2>4
<1>9. /\ isRunning => ~run_enabled /\ h.at \notin Loads \union {"start", "stop", "exit_info"}
      /\ isRunning => \A z \in rest : z.at \notin Loads \union {"start", "stop", "exit_info"}
      /\ frames = 1 => h.at \notin Tokens /\ \A z \in rest : z.at \notin Tokens
      /\ h.at = "start" => ~isRunning /\ frames = 0
  <2> HIDE DEF rest
  <2> QED BY <1>0, <1>7 DEF LoopInv, StartInv
<1> HIDE DEF rest, h
<1>10. /\ \A x \in N : x.at \notin {"start", "run_chunk", "raised"}
       /\ \A x \in N : x.at = "stop" => isRunning /\ ~isRunning' /\ run_enabled' = run_enabled
       /\ \A x \in N : x.at \in Tokens => h.at = "run_chunk" /\ x.at = "count" /\ x.res = h.res
       /\ \A x \in N : EndKnown(x) => EndKnown(h) \/ EndTold(h)
  <2>1. \A x \in N : x.at \notin {"start", "run_chunk", "raised"}
    BY <1>2 DEF PageMove
  <2>2. \A x \in N : x.at = "stop" => isRunning /\ ~isRunning' /\ run_enabled' = run_enabled
    BY <1>2 DEF PageMove
  <2>3. \A x \in N : x.at \in Tokens => h.at = "run_chunk" /\ x.at = "count" /\ x.res = h.res
    BY <1>2 DEF PageMove, Tokens
  <2>4. \A x \in N : EndKnown(x) => EndKnown(h) \/ EndTold(h)
    BY <1>2 DEF PageMove, EndKnown, EndTold
  <2> QED BY <2>1, <2>2, <2>3, <2>4
<1>11. StartInv'
  <2>1. ASSUME Waits({"start"})'
        PROVE  /\ ~isRunning' /\ frames' = 0
               /\ \A z \in Items(calls)' \union Items(answers)' : z.at \in {"start", "options?", "update_options"}
    <3>1. Waits({"start"}) /\ \E z \in rest : z.at = "start"
      BY <1>7, <1>10, <2>1
    <3>2. h.at \in {"options?", "update_options"}
      BY <1>0, <1>1, <1>8, <3>1 DEF StartInv
    <3>3. Same /\ \A x \in N : x.at = "update_options"
      BY <1>2, <3>2 DEF PageMove
    <3> QED BY <1>0, <1>1, <1>4, <3>1, <3>3 DEF StartInv, Same
  <2>2. PageOrder({"start"}, {"start"})'
    BY <1>0, <1>5, <1>10 DEF StartInv
  <2>3. Told({"start"}, TRUE)' => running' /\ ~should_reset_pc'
    BY <1>0, <1>1, <1>7 DEF StartInv
  <2> QED BY <2>1, <2>2, <2>3 DEF StartInv
<1>12. isRunning' => \/ h.at = "start" /\ h.res /\ N = {} /\ ~run_enabled' /\ frames' = frames + 1
                     \/ /\ isRunning /\ run_enabled' = run_enabled
                        /\ \/ h.at \in {"options?", "update_options"} /\ frames' = frames /\ \A x \in N : x.at = "update_options"
                           \/ h.at = "run_chunk" /\ frames' = frames /\ \A x \in N : x.at = "count" /\ x.res = h.res
                           \/ h.at = "count" /\ h.res /\ N = {} /\ frames' = frames + 1
  BY <1>2, <1>9 DEF PageMove, Same, Loads
<1>13. \/ frames' = frames
       \/ frames = 0 /\ frames' = 1 /\ N = {} /\ \A z \in rest : z.at \notin Tokens
  <2>1. CASE h.at = "start" /\ frames' = frames + 1 /\ N = {}
    BY <1>8, <1>9, <2>1 DEF Tokens
  <2>2. CASE h.at = "count" /\ frames' = frames + 1 /\ N = {}
    <3>1. h.at \in Tokens
      BY <2>2 DEF Tokens
    <3>2. frames = 0
      BY <1>3, <1>9, <3>1
    <3> QED BY <1>8, <2>2, <3>1, <3>2
  <2>3. \/ frames' = frames
        \/ h.at = "start" /\ frames' = frames + 1 /\ N = {}
        \/ h.at = "count" /\ frames' = frames + 1 /\ N = {}
    BY <1>2 DEF PageMove, Same
  <2> QED BY <2>1, <2>2, <2>3
<1>14. LoopInv'
  <2>1. isRunning' => (~run_enabled /\ ~Waits(Loads \union {"start", "stop", "exit_info"}))'
    <3> SUFFICES ASSUME isRunning'
                 PROVE  /\ ~run_enabled'
                        /\ \A z \in rest : z.at \notin Loads \union {"start", "stop", "exit_info"}
                        /\ \A x \in N : x.at \notin Loads \union {"start", "stop", "exit_info"}
      BY <1>7 DEF Loads
    <3>1. CASE h.at = "start" /\ h.res /\ N = {} /\ ~run_enabled'
      BY <1>8, <3>1 DEF Loads
    <3>2. CASE /\ isRunning /\ run_enabled' = run_enabled
               /\ \A x \in N : x.at \in {"update_options", "count"}
      BY <1>9, <3>2 DEF Loads
    <3> QED BY <1>12, <3>1, <3>2
  <2>2. frames' \in {0, 1}
    BY <1>3, <1>13
  <2>3. frames' = 1 => ~Waits(Tokens)'
    <3>1. CASE frames' = frames /\ frames' = 1
      <4>1. \A x \in N : x.at \notin Tokens
        BY <1>9, <1>10, <3>1 DEF Tokens
      <4> QED BY <1>7, <1>9, <3>1, <4>1
    <3>2. CASE N = {} /\ \A z \in rest : z.at \notin Tokens
      BY <1>7, <3>2
    <3> QED BY <1>13, <3>1, <3>2
  <2>4. PageOrder(Tokens, Tokens)'
    <3>1. \A x \in N : x.at \in Tokens => \A z \in rest : z.at \notin Tokens
      BY <1>8, <1>10 DEF Tokens
    <3> QED BY <1>0, <1>5, <3>1 DEF LoopInv
  <2> QED BY <2>1, <2>2, <2>3, <2>4 DEF LoopInv, Loads, Tokens
<1>15. ChunkInv'
  <2>1. ASSUME isRunning', ~running'
        PROVE  /\ frames' = 0 /\ ~Called({"run_chunk"})'
               /\ ~Told({"run_chunk"}, TRUE)' /\ ~Waits({"raised"})'
               /\ \A z \in Items(calls)' \union Items(answers)' : z.at = "count" => ~z.res
    <3>1. ~(h.at = "start" /\ h.res)
      <4>1. h.at = "start" /\ h.res => Told({"start"}, TRUE)
        BY <1>3, <1>7
      <4> QED BY <1>0, <1>1, <2>1, <4>1 DEF StartInv
    <3>2. isRunning /\ ~running
      BY <1>1, <1>12, <2>1, <3>1
    <3>3. /\ frames = 0 /\ ~Called({"run_chunk"})
          /\ ~Told({"run_chunk"}, TRUE) /\ ~Waits({"raised"})
          /\ \A z \in Items(calls) \union Items(answers) : z.at = "count" => ~z.res
      BY <1>0, <3>2 DEF ChunkInv
    <3>4. ~(h.at = "count" /\ h.res)
      BY <1>1, <3>3
    <3>5. ~(h.at = "run_chunk" /\ h.res)
      BY <1>3, <1>7, <3>3
    <3>6. frames' = 0 /\ \A x \in N : x.at = "count" => ~x.res
      BY <1>12, <2>1, <3>1, <3>3, <3>4, <3>5
    <3>7. ~Told({"run_chunk"}, TRUE)'
      BY <1>7, <3>3
    <3>8. ~Called({"run_chunk"})' /\ ~Waits({"raised"})'
      BY <1>7, <1>10, <3>3
    <3> QED BY <1>1, <1>4, <3>3, <3>6, <3>7, <3>8
  <2>2. Called({"run_chunk"})' => running'
    BY <1>0, <1>1, <1>7, <1>10 DEF ChunkInv
  <2>3. NoneBefore(calls', Kind({"stop"}), Kind({"run_chunk"}))
    <3>1. NoneBefore(calls, Kind({"stop"}), Kind({"run_chunk"}))
      BY <1>0 DEF ChunkInv
    <3>2. ASSUME NEW x \in Item, N = {x}, calls' = Append(calls, x)
          PROVE  NoneBefore(calls', Kind({"stop"}), Kind({"run_chunk"}))
      <4>1. x \notin Kind({"run_chunk"})
        BY <1>10, <3>2 DEF Kind
      <4> QED BY <1>3, <3>1, <3>2, <4>1, Added
    <3> QED BY <1>2, <3>1, <3>2 DEF Making
  <2> QED BY <2>1, <2>2, <2>3 DEF ChunkInv, Kind
<1>16. StopInv'
  <2>1. Waits({"stop"})' => ~run_enabled' /\ ~isRunning'
    <3>1. CASE \E x \in N : x.at = "stop"
      BY <1>9, <1>10, <3>1
    <3>2. CASE \E z \in rest : z.at = "stop"
      <4>1. Waits({"stop"}) /\ h.at \notin Loads \union {"stop", "start"}
        BY <1>7, <1>8, <3>2
      <4>2. ~run_enabled /\ ~isRunning
        BY <1>0, <4>1 DEF StopInv
      <4> QED BY <1>2, <4>1, <4>2 DEF PageMove, Same, Loads
    <3> QED BY <1>7, <3>1, <3>2
  <2>2. \A x \in N : x.at \in {"stop"} => \A z \in rest : z.at \notin Loads \union {"stop"}
    BY <1>9, <1>10
  <2>3. PageOrder(Loads \union {"stop"}, {"stop"})'
    BY <1>0, <1>5, <2>2 DEF StopInv
  <2> QED BY <2>1, <2>3 DEF StopInv, Loads
<1>17. LabelInv'
  <2>1. EndKnown(h) \/ EndTold(h) => Due
    BY <1>1 DEF Due, EndKnown, EndTold
  <2>2. Due' => Due
    BY <1>1, <1>4, <1>10, <2>1 DEF Due, EndKnown, EndTold
  <2>3. CASE h.at = "start" /\ h.res
    <3>1. Told({"start"}, TRUE)
      BY <1>3, <1>7, <2>3
    <3>2. ~should_reset_pc /\ label' = "Resume"
      BY <1>0, <1>2, <2>3, <3>1 DEF StartInv, PageMove
    <3> QED BY <1>0, <1>1, <2>2, <3>2 DEF LabelInv
  <2>4. CASE label' = "Run" /\ (EndKnown(h) \/ EndTold(h))
    BY <1>0, <1>1, <2>1, <2>2, <2>4 DEF LabelInv
  <2>5. CASE /\ label' = label /\ ~(h.at = "start" /\ h.res)
             /\ EndKnown(h) \/ EndTold(h) => \E x \in N : EndKnown(x)
    <3>1. Due => Due'
      BY <1>1, <1>4, <2>5 DEF Due, EndKnown, EndTold
    <3>2. Told({"start"}, TRUE) => Told({"start"}, TRUE)'
      <4>1. ~(h.at \in {"start"} /\ h.res = TRUE)
        BY <2>5
      <4> QED BY <1>7, <4>1
    <3> QED BY <1>0, <1>1, <2>2, <2>5, <3>1, <3>2 DEF LabelInv
  <2>6. \/ h.at = "start" /\ h.res
        \/ label' = "Run" /\ (EndKnown(h) \/ EndTold(h))
        \/ label' = label /\ (EndKnown(h) \/ EndTold(h) => \E x \in N : EndKnown(x))
    BY <1>2, <1>3 DEF PageMove, Same, EndKnown, EndTold
  <2> QED BY <2>3, <2>4, <2>5, <2>6
<1> QED BY <1>0, <1>1, <1>11, <1>14, <1>15, <1>16, <1>17 DEF Calm

\* start, stop, reset, load_file, run_chunk and main.js: as long as Run was
\* not clicked while a start, a loop, a load or a reset was under way, the
\* page is calm.
THEOREM PageIsCalm == Spec => []CalmInv
<1>1. Init => CalmInv
  <2> SUFFICES ASSUME Init PROVE CalmInv
    OBVIOUS
  <2>1. calls = <<>> /\ answers = <<>> /\ frames = 0 /\ ~file_loaded /\ ~running /\ ~isRunning
        /\ overlap = FALSE
    BY DEF Init, PyInit
  <2>2. Items(calls) = {} /\ Items(answers) = {}
    BY <2>1 DEF Items
  <2>3. \A K, r : ~Called(K) /\ ~Told(K, r) /\ ~Waits(K)
    BY <2>2 DEF Called, Told, Waits
  <2>4. \A K, L : PageOrder(K, L)
    BY <2>2, OrderOfNone DEF PageOrder
  <2>5. NoneBefore(calls, Kind({"stop"}), Kind({"run_chunk"}))
    BY <2>1 DEF NoneBefore
  <2>6. ~Due
    BY <2>2 DEF Due
  <2> QED BY <2>1, <2>3, <2>4, <2>5, <2>6
             DEF CalmInv, Calm, StartInv, LoopInv, ChunkInv, StopInv, LabelInv
<1>2. Inv /\ CalmInv /\ [Next]_vars => CalmInv'
  <2> SUFFICES ASSUME Inv, CalmInv, [Next]_vars PROVE CalmInv'
    OBVIOUS
  <2>1. TypeInv /\ overlap \in BOOLEAN /\ (~overlap => Calm)
    BY DEF Inv, CalmInv
  <2>2. CASE User \/ loop_begins
    <3>1. UNCHANGED <<pyVars, answers, run_enabled, label>>
      BY <2>1, <2>2, UserShape
    <3>2. overlap' \in BOOLEAN /\ (~overlap' => ~overlap /\ UserMove)
      BY <2>1, <2>2, UserMoves
    <3> QED BY <2>1, <3>1, <3>2, CalmUser DEF CalmInv
  <2>3. CASE python
    <3>1. overlap' = overlap
      BY <2>3 DEF python, jsVars
    <3> QED BY <2>1, <2>3, <3>1, CalmPython DEF CalmInv
  <2>4. CASE GoOn
    <3>1. overlap' = overlap
      BY <2>1, <2>4, GoOnShape
    <3> QED BY <2>1, <2>4, <3>1, CalmPage DEF CalmInv
  <2>5. CASE UNCHANGED vars
    <3>1. /\ UNCHANGED <<calls, answers, frames, overlap, isRunning, run_enabled, label>>
          /\ UNCHANGED <<running, should_reset_pc, file_loaded>>
      BY <2>5 DEF vars, pyVars, jsVars, buttons
    <3>2. Items(calls)' = Items(calls) /\ Items(answers)' = Items(answers)
      BY <3>1 DEF Items
    <3>3. /\ \A K : (Called(K)' <=> Called(K)) /\ (Waits(K)' <=> Waits(K))
          /\ \A K, r : Told(K, r)' <=> Told(K, r)
          /\ Due' <=> Due
      BY <3>2 DEF Called, Told, Waits, Due, EndKnown, EndTold
    <3>4. \A K, L : PageOrder(K, L)' <=> PageOrder(K, L)
      BY <3>1, <3>2 DEF PageOrder, Ordered, Kind
    <3>5. ASSUME Calm PROVE Calm'
      <4>1. StartInv'
        BY <3>1, <3>2, <3>3, <3>4, <3>5 DEF Calm, StartInv
      <4>2. LoopInv'
        BY <3>1, <3>3, <3>4, <3>5 DEF Calm, LoopInv, Loads, Tokens
      <4>3. ChunkInv'
        BY <3>1, <3>2, <3>3, <3>5 DEF Calm, ChunkInv, Kind
      <4>4. StopInv'
        BY <3>1, <3>3, <3>4, <3>5 DEF Calm, StopInv, Loads
      <4>5. LabelInv'
        BY <3>1, <3>3, <3>5 DEF Calm, LabelInv
      <4> QED BY <3>1, <3>5, <4>1, <4>2, <4>3, <4>4, <4>5 DEF Calm
    <3> QED BY <2>1, <3>1, <3>5 DEF CalmInv
  <2> QED BY <2>2, <2>3, <2>4, <2>5 DEF Next
<1> QED BY <1>1, <1>2, PageInStep, PTL DEF Spec

\* browser_entry.py: instructions are only run of a program that was loaded,
\* as long as Run was not clicked while something was under way.
THEOREM OnlyLoadedRuns == Spec => []RunsLoadedProgram
<1>1. CalmInv => RunsLoadedProgram
  BY DEF CalmInv, Calm, RunsLoadedProgram
<1> QED BY <1>1, PageIsCalm, PTL

\* main.js, start: when nothing is under way, the Run button says "Resume" if
\* and only if start() will go on from where the program was, likewise.
THEOREM LabelAlwaysTruthful == Spec => []LabelTruthful
<1>1. Inv /\ CalmInv => LabelTruthful
  <2> SUFFICES ASSUME Inv, CalmInv, Quiet, file_loaded, ~overlap
               PROVE  label = "Resume" <=> ~should_reset_pc
    BY DEF LabelTruthful
  <2>1. Items(calls) = {} /\ Items(answers) = {}
    BY DEF Quiet, Items
  <2>2. ~Due /\ ~Told({"start"}, TRUE)
    BY <2>1 DEF Due, Told
  <2>3. label \in {"Run", "Resume"}
    BY DEF Inv, TypeInv
  <2>4. LabelInv
    BY DEF CalmInv, Calm
  <2> QED BY <2>2, <2>3, <2>4 DEF LabelInv
<1> QED BY <1>1, PageInStep, PageIsCalm, PTL
=============================================================================
