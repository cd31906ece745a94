---------------------------- MODULE LoaderProofs ----------------------------
(***************************************************************************)
(* The safety properties of Loader for any set of plugins, any relation    *)
(* between them that load_all() accepts and any number of sections.        *)
(***************************************************************************)
EXTENDS Loader, SequenceTheorems, TLAPS

Distinct(s) == \A i, j \in DOMAIN s : s[i] = s[j] => i = j

\* The first n plugins of order_.
FirstOf(n) == {order_[j] : j \in 1..n}

\* topsort(): order_ holds the visited plugins, each in front of those it
\* requires, and the calls of visit() under way are for different plugins.
Topsorting ==
  pc \in {"load", "topsort"} =>
    /\ Distinct(order_) /\ Distinct(stack)
    /\ \A j \in DOMAIN stack : status[stack[j]] = "ONGOING"
    /\ \A j \in DOMAIN order_ : status[order_[j]] = "VISITED"
    /\ \A p \in Plugins : status[p] = "VISITED" => \E j \in DOMAIN order_ : order_[j] = p
    /\ \A i \in DOMAIN order_ : \A q \in requires[order_[i]] :
         \E j \in DOMAIN order_ : j > i /\ order_[j] = q

\* After the reversal each plugin comes behind those it requires.
Ordered ==
  pc \notin {"load", "topsort"} =>
    /\ Distinct(order_)
    /\ \A i \in DOMAIN order_ : \A q \in requires[order_[i]] :
         \E j \in DOMAIN order_ : j < i /\ order_[j] = q

\* The plugins that are initialised are the first ones of order_.
Initialised ==
  /\ pc = "load" => order_ = <<>>
  /\ pc \in {"load", "topsort"} => live = {} /\ at = 1
  /\ pc = "init" => at \in 1..(Len(order_) + 1) /\ live = FirstOf(at - 1)
  /\ pc \in {"start", "loop", "scan", "stop"} => live = FirstOf(Len(order_))
  /\ pc = "deinit" => at \in 0..Len(order_) /\ live = FirstOf(at)
  /\ pc = "end" => live = {}
  /\ pc \in {"start", "stop"} => at >= 1

\* A thread that has not ended has a valid future; a scan without an unsettled
\* future has left none valid behind it.
Futures ==
  /\ \A s \in Sections : thread[s] \in {"launched", "running"} => s \in valid
  /\ pc \in {"load", "topsort", "init", "deinit", "end"} => valid = {}
  /\ pc = "start" => \A s \in valid : s < at
  /\ pc \in {"scan", "stop"} /\ ~have_unsettled_futures => \A s \in valid : s >= fut
  /\ pc = "stop" /\ reason = "finished" => fut > NumSections /\ ~have_unsettled_futures

\* stop() has been called for every section or for none, except in stop_all().
StopCalls ==
  /\ pc \in Loading => ~called_stop_all /\ first_eptr = None
  /\ pc = "stop" => /\ ~called_stop_all
                    /\ \A s \in Sections : stops[s] = IF s < at THEN 1 ELSE 0
  /\ pc # "stop" => \A s \in Sections : stops[s] = IF called_stop_all THEN 1 ELSE 0
  /\ pc \in {"loop", "scan", "stop"} => first_eptr \in {None, "start", "stop"}
  /\ pc \in {"deinit", "end"} => (first_eptr \in {"load", "init"} <=> ~called_stop_all)
  /\ inner_eptr \in {None, "stop", "deinit"}
  /\ pc = "stop" => inner_eptr # "deinit"

\* An error that was raised is kept, by the future of its thread at least.
ErrorsKept ==
  /\ raised <=> \/ first_eptr # None \/ inner_eptr # None
                \/ \E s \in valid : thread[s] = "failed"
  /\ inner_eptr # None => pc \in {"stop", "deinit", "end"}
  /\ pc = "stop" /\ reason = "error" => first_eptr # None
  /\ pc = "end" /\ inner_eptr # None => first_eptr # None

\* The inductive invariant.
IInv ==
  /\ TypeOK /\ Topsorting /\ Ordered /\ Initialised
  /\ Futures /\ StopCalls /\ ErrorsKept

\* Sequences: push_front() of std::list.
LEMMA PushFront ==
  ASSUME NEW p \in Plugins, NEW s \in Seq(Plugins)
  PROVE  /\ <<p>> \o s \in Seq(Plugins)
         /\ DOMAIN (<<p>> \o s) = 1..(Len(s) + 1)
         /\ (<<p>> \o s)[1] = p
         /\ \A j \in 1..Len(s) : (<<p>> \o s)[j + 1] = s[j]
<1>1. <<p>> \in Seq(Plugins) /\ Len(<<p>>) = 1 /\ <<p>>[1] = p
  OBVIOUS
<1>2. Len(s) \in Nat
  BY LenProperties
<1>3. /\ <<p>> \o s \in Seq(Plugins) /\ Len(<<p>> \o s) = 1 + Len(s)
      /\ \A i \in 1..(1 + Len(s)) :
           (<<p>> \o s)[i] = IF i <= 1 THEN <<p>>[i] ELSE s[i - 1]
  BY <1>1, ConcatProperties
<1>4. DOMAIN (<<p>> \o s) = 1..(Len(s) + 1)
  BY <1>2, <1>3
<1>5. QED BY <1>1, <1>2, <1>3, <1>4

\* A plugin that is not in the sequence keeps its elements different.
LEMMA PushFrontDistinct ==
  ASSUME NEW p \in Plugins, NEW s \in Seq(Plugins), Distinct(s),
         \A j \in DOMAIN s : s[j] # p
  PROVE  Distinct(<<p>> \o s)
<1> DEFINE t == <<p>> \o s
<1>1. /\ Len(s) \in Nat /\ DOMAIN s = 1..Len(s)
      /\ DOMAIN t = 1..(Len(s) + 1) /\ t[1] = p
      /\ \A j \in 1..Len(s) : t[j + 1] = s[j]
  BY PushFront
<1> HIDE DEF t
<1>2. \A j \in DOMAIN t : j = 1 \/ (j - 1 \in DOMAIN s /\ t[j] = s[j - 1])
  BY <1>1
<1>3. Distinct(t)
  BY <1>1, <1>2 DEF Distinct
<1>4. QED BY <1>3 DEF t

\* Head and tail of the stack of visit().
LEMMA PopFront ==
  ASSUME NEW s \in Seq(Plugins), s # <<>>
  PROVE  /\ Head(s) \in Plugins /\ Head(s) = s[1] /\ 1 \in DOMAIN s
         /\ Tail(s) \in Seq(Plugins)
         /\ DOMAIN Tail(s) = 1..(Len(s) - 1)
         /\ \A j \in 1..(Len(s) - 1) : Tail(s)[j] = s[j + 1]
<1>1. Len(s) \in Nat \ {0} /\ DOMAIN s = 1..Len(s)
  BY EmptySeq, LenProperties
<1>2. /\ Head(s) \in Plugins /\ Head(s) = s[1] /\ Tail(s) \in Seq(Plugins)
      /\ Len(Tail(s)) = Len(s) - 1
      /\ \A j \in 1..(Len(s) - 1) : Tail(s)[j] = s[j + 1]
  BY <1>1, HeadTailProperties
<1>3. QED BY <1>1, <1>2

\* order_.reverse()
LEMMA ReversedProperties ==
  ASSUME NEW s \in Seq(Plugins)
  PROVE  /\ Reversed(s) \in Seq(Plugins)
         /\ DOMAIN Reversed(s) = DOMAIN s
         /\ \A j \in DOMAIN s : /\ Len(s) + 1 - j \in DOMAIN s
                                /\ Reversed(s)[j] = s[Len(s) + 1 - j]
<1>1. Len(s) \in Nat /\ DOMAIN s = 1..Len(s) /\ \A j \in 1..Len(s) : s[j] \in Plugins
  OBVIOUS
<1>2. \A j \in 1..Len(s) : Len(s) + 1 - j \in 1..Len(s)
  BY <1>1
<1>3. Reversed(s) \in [1..Len(s) -> Plugins]
  BY <1>1, <1>2 DEF Reversed
<1>4. QED BY <1>1, <1>2, <1>3 DEF Reversed

\* order_.erase(it, order_.end()) leaves the elements before it.
LEMMA EraseFromProperties ==
  ASSUME NEW s \in Seq(Plugins), NEW n \in 1..Len(s)
  PROVE  /\ EraseFrom(s, n) \in Seq(Plugins)
         /\ Len(EraseFrom(s, n)) = n - 1
         /\ DOMAIN EraseFrom(s, n) = 1..(n - 1)
         /\ \A j \in 1..(n - 1) : j \in DOMAIN s /\ EraseFrom(s, n)[j] = s[j]
<1>1. Len(s) \in Nat /\ DOMAIN s = 1..Len(s)
  OBVIOUS
<1>2. CASE n = 1
  BY <1>1, <1>2, SubSeqEmpty, EmptySeq DEF EraseFrom
<1>3. CASE n > 1
  BY <1>1, <1>3, SubSeqProperties DEF EraseFrom
<1>4. QED BY <1>1, <1>2, <1>3

\* Every step keeps the types.
LEMMA TypeStep == IInv /\ [Next]_vars => TypeOK'
<1> SUFFICES ASSUME IInv, [Next]_vars PROVE TypeOK'
  OBVIOUS
<1> USE LoaderAssumption DEF IInv, TypeOK, Loading, Errors, None, First, Sections, before, during, errors
<1>0. \A f \in [Sections -> BOOLEAN] : \A b \in BOOLEAN : \A s :
        [f EXCEPT ![s] = b] \in [Sections -> BOOLEAN]
  OBVIOUS
<1>1. CASE Load BY <1>1 DEF Load
<1>2. CASE LoadThrows BY <1>2 DEF LoadThrows
<1>3. CASE \E p \in Plugins : Visit(p)
  <2>1. PICK p \in Plugins : Visit(p)
    BY <1>3
  <2>2. stack' \in Seq(Plugins)
    BY <2>1, PushFront DEF Visit
  <2>3. QED BY <2>1, <2>2 DEF Visit
<1>4. CASE Visited
  <2>1. Head(stack) \in Plugins /\ Tail(stack) \in Seq(Plugins)
    BY <1>4, PopFront DEF Visited
  <2>2. order_' \in Seq(Plugins)
    BY <1>4, <2>1, PushFront DEF Visited
  <2>3. QED BY <1>4, <2>1, <2>2 DEF Visited
<1>5. CASE Sorted
  <2>1. order_' \in Seq(Plugins)
    BY <1>5, ReversedProperties DEF Sorted
  <2>2. QED BY <1>5, <2>1 DEF Sorted
<1>6. CASE InitPlugin BY <1>6 DEF InitPlugin, Initialised
<1>7. CASE InitFails
  <2>1. order_' \in Seq(Plugins) /\ at' \in Nat
    BY <1>7, EraseFromProperties DEF InitFails, Initialised
  <2>2. QED BY <1>7, <2>1 DEF InitFails
<1>8. CASE InitDone BY <1>8 DEF InitDone
<1>9. CASE StartSection
  <2>1. CASE PluginOf[at] \in startable
    <3>1. /\ thread' = [thread EXCEPT ![at] = "launched"] /\ running_' = [running_ EXCEPT ![at] = TRUE]
          /\ valid' = valid \cup {at}
      BY <1>9, <2>1 DEF StartSection
    <3>2. thread' \in [Sections -> {"none", "launched", "running", "ok", "failed"}]
      BY <3>1
    <3>3. running_' \in [Sections -> BOOLEAN]
      BY <3>1, <1>0
    <3>4. at \in Sections
      BY <1>9 DEF StartSection, Initialised
    <3>5. QED BY <1>9, <3>1, <3>2, <3>3, <3>4 DEF StartSection
  <2>2. CASE PluginOf[at] \notin startable
    <3>1. UNCHANGED <<thread, running_, valid>> /\ at' \in Nat
      BY <1>9, <2>2 DEF StartSection
    <3>2. QED BY <1>9, <3>1 DEF StartSection
  <2>3. QED BY <2>1, <2>2
<1>10. CASE StartDone BY <1>10 DEF StartDone
<1>11. CASE LoopTop
  <2>0. have_unsettled_futures' \in BOOLEAN
    BY <1>11, Zenon DEF LoopTop
  <2>1. fut' \in 1..(NumSections + 1)
    BY <1>11 DEF LoopTop
  <2>2. at' \in Nat /\ reason' \in {"none", "signal", "error", "finished"}
        /\ inner_eptr' \in Errors /\ pc' \in {"stop", "scan"}
    <3>1. CASE g_shutdown_pending /\ NotStopped
      <4>1. pc' = "stop" /\ at' = 1 /\ reason' = "signal" /\ inner_eptr' = None
        BY <1>11, <3>1 DEF LoopTop, CallStopAll
      <4>2. QED BY <4>1
    <3>2. CASE ~(g_shutdown_pending /\ NotStopped)
      <4>1. pc' = "scan" /\ UNCHANGED <<at, reason, inner_eptr>>
        BY <1>11, <3>2 DEF LoopTop
      <4>2. QED BY <4>1
    <3>3. QED BY <3>1, <3>2
  <2>3. QED BY <1>11, <2>0, <2>1, <2>2 DEF LoopTop
<1>12. CASE SkipInvalid BY <1>12 DEF SkipInvalid, NextFuture
<1>13. CASE StillRunning BY <1>13 DEF StillRunning, NextFuture
<1>14. CASE Settled BY <1>14 DEF Settled, NextFuture, Ended
<1>15. CASE FirstError BY <1>15 DEF FirstError, NextFuture, CallStopAll
<1>16. CASE ScanEnd BY <1>16 DEF ScanEnd, CallStopAll, CallDeinitAll
<1>17. CASE \E fails \in BOOLEAN : StopSection(fails)
  <2>1. PICK fails \in BOOLEAN : StopSection(fails)
    BY <1>17
  <2>2. running_' \in [Sections -> BOOLEAN]
    BY <2>1, <1>0 DEF StopSection, ClearRunning
  <2>3. raised' \in BOOLEAN
    BY <2>1 DEF StopSection
  <2>4. stops' \in [Sections -> Nat] /\ inner_eptr' \in Errors /\ at' \in Nat
    <3>1. inner_eptr' \in {inner_eptr, First(inner_eptr, "stop")}
      BY <2>1 DEF StopSection
    <3>2. stops' = [stops EXCEPT ![at] = stops[at] + 1] /\ at' = at + 1
      BY <2>1 DEF StopSection
    <3>3. stops' \in [Sections -> Nat]
      BY <2>1, <3>2 DEF StopSection, Initialised
    <3>4. QED BY <3>1, <3>2, <3>3
  <2>5. QED BY <2>1, <2>2, <2>3, <2>4 DEF StopSection
<1>18. CASE StopDone BY <1>18 DEF StopDone, CallDeinitAll, AfterStop
<1>19. CASE \E fails \in BOOLEAN : DeinitPlugin(fails)
  <2>1. PICK fails \in BOOLEAN : DeinitPlugin(fails)
    BY <1>19
  <2>2. raised' \in BOOLEAN
    BY <2>1 DEF DeinitPlugin
  <2>3. QED BY <2>1, <2>2 DEF DeinitPlugin
<1>20. CASE DeinitDone BY <1>20 DEF DeinitDone
<1>21. CASE \E s \in Sections : ThreadBegins(s) BY <1>21 DEF ThreadBegins
<1>22. CASE \E s \in Sections, fails \in BOOLEAN : ThreadEnds(s, fails)
  <2>1. PICK s \in Sections, fails \in BOOLEAN : ThreadEnds(s, fails)
    BY <1>22
  <2>2. raised' \in BOOLEAN /\ thread' \in [Sections -> {"none", "launched", "running", "ok", "failed"}]
    BY <2>1 DEF ThreadEnds
  <2>3. QED BY <2>1, <2>2 DEF ThreadEnds
<1>23. CASE Signal BY <1>23 DEF Signal
<1>24. CASE UNCHANGED vars BY <1>24 DEF vars
<1>25. QED
  BY <1>1, <1>2, <1>3, <1>4, <1>5, <1>6, <1>7, <1>8, <1>9, <1>10, <1>11, <1>12, <1>13,
     <1>14, <1>15, <1>16, <1>17, <1>18, <1>19, <1>20, <1>21, <1>22, <1>23, <1>24
  DEF Next, Main, Thread, Exited

\* visit() puts a plugin in front of order_ when those it requires are there.
LEMMA TopsortingStep == IInv /\ [Next]_vars => Topsorting'
<1> SUFFICES ASSUME IInv, [Next]_vars PROVE Topsorting'
  OBVIOUS
<1> USE DEF before, during, errors
<1>1. TypeOK /\ Topsorting
  BY DEF IInv
<1>2. CASE pc' \notin {"load", "topsort"}
  BY <1>2 DEF Topsorting
<1>3. CASE pc \in {"load", "topsort"} /\ UNCHANGED <<requires, status, stack, order_>>
  BY <1>1, <1>3 DEF Topsorting, Distinct
<1>4. ASSUME NEW p \in Plugins, Visit(p) PROVE Topsorting'
  <2>1. /\ stack \in Seq(Plugins) /\ stack' = <<p>> \o stack /\ order_' = order_
        /\ requires' = requires /\ status' = [status EXCEPT ![p] = "ONGOING"]
        /\ status \in [Plugins -> {"UNVISITED", "ONGOING", "VISITED"}]
        /\ status[p] = "UNVISITED" /\ order_ \in Seq(Plugins) /\ pc = "topsort"
    BY <1>1, <1>4 DEF Visit, TypeOK
  <2>2. \A j \in DOMAIN stack : stack[j] # p /\ stack[j] \in Plugins
    BY <1>1, <2>1 DEF Topsorting
  <2>3. \A j \in DOMAIN order_ : order_[j] # p /\ order_[j] \in Plugins
    BY <1>1, <2>1 DEF Topsorting
  <2>4. Distinct(stack') /\ Distinct(order_')
    BY <1>1, <2>1, <2>2, PushFrontDistinct DEF Topsorting
  <2>5. \A j \in DOMAIN stack' : status'[stack'[j]] = "ONGOING"
    <3>1. /\ Len(stack) \in Nat /\ DOMAIN stack = 1..Len(stack)
          /\ DOMAIN stack' = 1..(Len(stack) + 1) /\ stack'[1] = p
          /\ \A j \in 1..Len(stack) : stack'[j + 1] = stack[j]
      BY <2>1, PushFront
    <3>2. \A j \in DOMAIN stack' : j = 1 \/ (j - 1 \in DOMAIN stack /\ stack'[j] = stack[j - 1])
      BY <3>1
    <3>3. \A j \in DOMAIN stack : status'[stack[j]] = "ONGOING"
      BY <1>1, <2>1, <2>2 DEF Topsorting
    <3>4. QED BY <2>1, <3>1, <3>2, <3>3
  <2>6. \A j \in DOMAIN order_' : status'[order_'[j]] = "VISITED"
    BY <1>1, <2>1, <2>3 DEF Topsorting
  <2>7. \A q \in Plugins : status'[q] = "VISITED" => \E j \in DOMAIN order_' : order_'[j] = q
    BY <1>1, <2>1 DEF Topsorting
  <2>8. QED BY <1>1, <2>1, <2>4, <2>5, <2>6, <2>7 DEF Topsorting
<1>5. CASE Visited
  <2> DEFINE p == Head(stack)
  <2>1. /\ stack' = Tail(stack) /\ order_' = <<p>> \o order_ /\ requires' = requires
        /\ status' = [status EXCEPT ![p] = "VISITED"] /\ pc = "topsort"
        /\ \A q \in requires[p] : status[q] = "VISITED"
    BY <1>5 DEF Visited
  <2>2. /\ p \in Plugins /\ p = stack[1] /\ 1 \in DOMAIN stack
        /\ Len(stack) \in Nat /\ DOMAIN stack = 1..Len(stack)
        /\ DOMAIN stack' = 1..(Len(stack) - 1)
        /\ \A j \in 1..(Len(stack) - 1) : stack'[j] = stack[j + 1]
    BY <1>1, <1>5, <2>1, PopFront DEF Visited, TypeOK
  <2>3. /\ status \in [Plugins -> {"UNVISITED", "ONGOING", "VISITED"}]
        /\ order_ \in Seq(Plugins) /\ stack \in Seq(Plugins)
        /\ requires \in [Plugins -> SUBSET Plugins]
    BY <1>1 DEF TypeOK
  <2>4. /\ Len(order_) \in Nat /\ DOMAIN order_ = 1..Len(order_)
        /\ DOMAIN order_' = 1..(Len(order_) + 1) /\ order_'[1] = p
        /\ \A j \in 1..Len(order_) : order_'[j + 1] = order_[j]
    BY <2>1, <2>2, <2>3, PushFront
  <2> HIDE DEF p
  <2>5. status[p] = "ONGOING"
    BY <1>1, <2>1, <2>2 DEF Topsorting
  <2>6. \A j \in DOMAIN order_ : order_[j] # p /\ order_[j] \in Plugins
    BY <1>1, <2>1, <2>3, <2>5 DEF Topsorting
  <2>7. Distinct(order_')
    BY <1>1, <2>1, <2>2, <2>3, <2>6, PushFrontDistinct DEF Topsorting
  <2>8. Distinct(stack') /\ \A j \in DOMAIN stack' : stack'[j] # p
    <3>1. Distinct(stack)
      BY <1>1, <2>1 DEF Topsorting
    <3>2. \A j \in DOMAIN stack' :
            j + 1 \in DOMAIN stack /\ j \in Nat /\ j + 1 # 1 /\ stack'[j] = stack[j + 1]
      BY <2>2
    <3>3. \A j \in DOMAIN stack' : stack'[j] # p
      BY <2>2, <3>1, <3>2 DEF Distinct
    <3>4. Distinct(stack')
      BY <3>1, <3>2 DEF Distinct
    <3>5. QED BY <3>3, <3>4
  <2>9. \A j \in DOMAIN stack' : status'[stack'[j]] = "ONGOING"
    <3>1. ASSUME NEW j \in DOMAIN stack' PROVE status'[stack'[j]] = "ONGOING"
      <4>1. j + 1 \in DOMAIN stack /\ stack'[j] = stack[j + 1]
        BY <2>2
      <4>2. status[stack[j + 1]] = "ONGOING" /\ stack[j + 1] \in Plugins
        BY <1>1, <2>1, <2>3, <4>1 DEF Topsorting
      <4>3. QED BY <2>1, <2>3, <2>8, <4>1, <4>2
    <3>2. QED BY <3>1
  <2>10. \A j \in DOMAIN order_' : j = 1 \/ (j - 1 \in DOMAIN order_ /\ order_'[j] = order_[j - 1])
    BY <2>4
  <2>11. \A j \in DOMAIN order_' : status'[order_'[j]] = "VISITED"
    BY <1>1, <2>1, <2>2, <2>3, <2>4, <2>6, <2>10 DEF Topsorting
  <2>12. \A q \in Plugins : status[q] = "VISITED" =>
           \E j \in DOMAIN order_' : j > 1 /\ order_'[j] = q
    <3> SUFFICES ASSUME NEW q \in Plugins, status[q] = "VISITED"
                 PROVE  \E j \in DOMAIN order_' : j > 1 /\ order_'[j] = q
      OBVIOUS
    <3>1. PICK j \in DOMAIN order_ : order_[j] = q
      BY <1>1, <2>1 DEF Topsorting
    <3>2. j + 1 \in DOMAIN order_' /\ j + 1 > 1 /\ order_'[j + 1] = q
      BY <2>4, <3>1
    <3>3. QED BY <3>2
  <2>13. \A q \in Plugins : status'[q] = "VISITED" => \E j \in DOMAIN order_' : order_'[j] = q
    <3> SUFFICES ASSUME NEW q \in Plugins, status'[q] = "VISITED"
                 PROVE  \E j \in DOMAIN order_' : order_'[j] = q
      OBVIOUS
    <3>1. CASE q = p
      BY <2>4, <3>1
    <3>2. CASE q # p
      BY <2>1, <2>3, <2>12, <3>2
    <3>3. QED BY <3>1, <3>2
  <2>14. ASSUME NEW i \in DOMAIN order_', NEW q \in requires'[order_'[i]]
         PROVE  \E j \in DOMAIN order_' : j > i /\ order_'[j] = q
    <3>1. CASE i = 1
      BY <2>1, <2>2, <2>3, <2>4, <2>12, <2>14, <3>1
    <3>2. CASE i # 1
      <4>1. i - 1 \in DOMAIN order_ /\ q \in requires[order_[i - 1]]
        BY <2>1, <2>10, <2>14, <3>2
      <4>2. PICK j \in DOMAIN order_ : j > i - 1 /\ order_[j] = q
        BY <1>1, <2>1, <4>1 DEF Topsorting
      <4>3. j + 1 \in DOMAIN order_' /\ j + 1 > i /\ order_'[j + 1] = q
        BY <2>4, <4>1, <4>2
      <4>4. QED BY <4>3
    <3>3. QED BY <3>1, <3>2
  <2>15. QED BY <2>7, <2>8, <2>9, <2>11, <2>13, <2>14 DEF Topsorting
<1>6. QED
  BY <1>1, <1>2, <1>3, <1>4, <1>5
  DEF TypeOK, Loading, Next, Main, Thread, Exited, Load, LoadThrows, Visit, Visited, Sorted, InitPlugin, InitFails,
      InitDone, StartSection, StartDone, LoopTop, CallStopAll, SkipInvalid, StillRunning,
      Settled, FirstError, CallDeinitAll, ScanEnd, StopSection, StopDone, DeinitPlugin,
      DeinitDone, ThreadBegins, ThreadEnds, Signal, vars

\* The reversal turns the order round, the erase after a failing init() cuts
\* off plugins nobody left requires.
LEMMA OrderedStep == IInv /\ [Next]_vars => Ordered'
<1> SUFFICES ASSUME IInv, [Next]_vars PROVE Ordered'
  OBVIOUS
<1> USE DEF before, during, errors
<1>1. TypeOK /\ Topsorting /\ Ordered /\ Initialised
  BY DEF IInv
<1>2. CASE pc' \in {"load", "topsort"}
  BY <1>2 DEF Ordered
<1>3. CASE pc \notin {"load", "topsort"} /\ UNCHANGED <<requires, order_>>
  BY <1>1, <1>3 DEF Ordered, Distinct
<1>4. CASE LoadThrows
  <2>1. DOMAIN order_' = {}
    BY <1>1, <1>4 DEF LoadThrows, Initialised
  <2>2. QED BY <2>1 DEF Ordered, Distinct
<1>5. CASE Sorted
  <2>1. /\ Distinct(order_) /\ requires' = requires
        /\ \A i \in DOMAIN order_ : \A q \in requires[order_[i]] :
             \E j \in DOMAIN order_ : j > i /\ order_[j] = q
    BY <1>1, <1>5 DEF Sorted, Topsorting
  <2>2. Len(order_) \in Nat /\ DOMAIN order_ = 1..Len(order_)
    BY <1>1 DEF TypeOK
  <2>3. /\ DOMAIN order_' = DOMAIN order_
        /\ \A j \in DOMAIN order_ : /\ Len(order_) + 1 - j \in DOMAIN order_
                                    /\ order_'[j] = order_[Len(order_) + 1 - j]
    BY <1>1, <1>5, ReversedProperties DEF Sorted, TypeOK
  <2>4. Distinct(order_')
    BY <2>1, <2>2, <2>3 DEF Distinct
  <2>5. ASSUME NEW i \in DOMAIN order_', NEW q \in requires'[order_'[i]]
        PROVE  \E j \in DOMAIN order_' : j < i /\ order_'[j] = q
    <3>1. i \in 1..Len(order_) /\ Len(order_) + 1 - i \in DOMAIN order_
          /\ q \in requires[order_[Len(order_) + 1 - i]]
      BY <2>1, <2>2, <2>3, <2>5
    <3>2. PICK j \in DOMAIN order_ : j > Len(order_) + 1 - i /\ order_[j] = q
      BY <2>1, <3>1
    <3>3. Len(order_) + 1 - j \in DOMAIN order_' /\ Len(order_) + 1 - j < i
      BY <2>2, <2>3, <3>1, <3>2
    <3>4. order_'[Len(order_) + 1 - j] = q
      <4>1. Len(order_) + 1 - (Len(order_) + 1 - j) = j
        BY <2>2, <3>2
      <4>2. QED BY <2>3, <3>2, <3>3, <4>1
    <3>5. QED BY <3>3, <3>4
  <2>6. QED BY <2>4, <2>5 DEF Ordered
<1>6. CASE InitFails
  <2>1. /\ at \in 1..Len(order_) /\ requires' = requires /\ pc = "init"
        /\ Len(order_) \in Nat /\ DOMAIN order_ = 1..Len(order_)
    BY <1>1, <1>6 DEF InitFails, Initialised, TypeOK
  <2>2. /\ DOMAIN order_' = 1..(at - 1)
        /\ \A j \in 1..(at - 1) : j \in DOMAIN order_ /\ order_'[j] = order_[j]
    BY <1>1, <1>6, <2>1, EraseFromProperties DEF InitFails, TypeOK
  <2>3. Distinct(order_')
    BY <1>1, <2>1, <2>2 DEF Ordered, Distinct
  <2>4. ASSUME NEW i \in DOMAIN order_', NEW q \in requires'[order_'[i]]
        PROVE  \E j \in DOMAIN order_' : j < i /\ order_'[j] = q
    <3>1. PICK j \in DOMAIN order_ : j < i /\ order_[j] = q
      BY <1>1, <2>1, <2>2, <2>4 DEF Ordered
    <3>2. j \in DOMAIN order_' /\ order_'[j] = q
      BY <2>1, <2>2, <3>1
    <3>3. QED BY <3>1, <3>2
  <2>5. QED BY <2>3, <2>4 DEF Ordered
<1>7. QED
  BY <1>1, <1>2, <1>3, <1>4, <1>5, <1>6
  DEF TypeOK, Loading, Next, Main, Thread, Exited, Load, LoadThrows, Visit, Visited, Sorted, InitPlugin, InitFails,
      InitDone, StartSection, StartDone, LoopTop, CallStopAll, SkipInvalid, StillRunning,
      Settled, FirstError, CallDeinitAll, ScanEnd, StopSection, StopDone, DeinitPlugin,
      DeinitDone, ThreadBegins, ThreadEnds, Signal, vars

\* One plugin more or less.
LEMMA FirstOfStep ==
  ASSUME order_ \in Seq(Plugins), NEW n \in 1..Len(order_)
  PROVE  /\ FirstOf(n) = FirstOf(n - 1) \cup {order_[n]}
         /\ Distinct(order_) => FirstOf(n) \ {order_[n]} = FirstOf(n - 1)
<1>1. Len(order_) \in Nat /\ DOMAIN order_ = 1..Len(order_)
  OBVIOUS
<1>2. 1..n = 1..(n - 1) \cup {n}
  BY <1>1
<1>3. FirstOf(n) = FirstOf(n - 1) \cup {order_[n]}
  BY <1>2 DEF FirstOf
<1>4. ASSUME Distinct(order_) PROVE order_[n] \notin FirstOf(n - 1)
  <2>1. \A j \in 1..(n - 1) : j \in DOMAIN order_ /\ j # n
    BY <1>1
  <2>2. \A j \in 1..(n - 1) : order_[j] # order_[n]
    BY <1>1, <1>4, <2>1 DEF Distinct
  <2>3. QED BY <2>2 DEF FirstOf
<1>5. QED BY <1>3, <1>4

\* No plugin is the first of none.
LEMMA FirstOfNone == FirstOf(0) = {}
<1>1. 1..0 = {}
  OBVIOUS
<1>2. QED BY <1>1 DEF FirstOf

\* init_all() and deinit_all() go through order_ from its two ends.
LEMMA InitialisedStep == IInv /\ [Next]_vars => Initialised'
<1> SUFFICES ASSUME IInv, [Next]_vars PROVE Initialised'
  OBVIOUS
<1> USE DEF before, during, errors, Initialised, TypeOK, Loading
<1>0. TypeOK /\ Ordered /\ Initialised
  BY DEF IInv
<1> USE <1>0
<1>1. CASE Load
  BY <1>1 DEF Load, FirstOf
<1>2. CASE LoadThrows
  BY <1>2 DEF LoadThrows, FirstOf
<1>3. CASE \E p \in Plugins : Visit(p)
  BY <1>3 DEF Visit, FirstOf
<1>4. CASE Visited
  BY <1>4 DEF Visited, FirstOf
<1>5. CASE Sorted
  <2>1. FirstOf(at - 1)' = {}
    <3>1. 1..(at' - 1) = {}
      BY <1>5 DEF Sorted
    <3>2. QED BY <3>1 DEF FirstOf
  <2>2. Len(order_') \in Nat
    BY <1>5, ReversedProperties DEF Sorted
  <2>3. at' \in 1..(Len(order_') + 1) /\ live' = {} /\ pc' = "init"
    BY <1>5, <2>2 DEF Sorted
  <2>4. QED BY <2>1, <2>3, Zenon
<1>6. CASE InitPlugin
  <2>1. at \in 1..Len(order_) /\ Len(order_) \in Nat
    BY <1>6 DEF InitPlugin
  <2>2. live' = FirstOf(at)
    BY <1>6, <2>1, FirstOfStep DEF InitPlugin
  <2>3. FirstOf(at - 1)' = FirstOf(at)
    <3>1. at' - 1 = at /\ order_' = order_
      BY <1>6, <2>1 DEF InitPlugin
    <3>2. QED BY <3>1 DEF FirstOf
  <2>4. QED BY <1>6, <2>1, <2>2, <2>3 DEF InitPlugin
<1>7. CASE InitFails
  <2>1. at \in 1..Len(order_) /\ Len(order_) \in Nat
    BY <1>7 DEF InitFails
  <2>2. /\ Len(order_') = at - 1 /\ at' = at - 1
        /\ \A j \in 1..(at - 1) : order_'[j] = order_[j]
    BY <1>7, <2>1, EraseFromProperties DEF InitFails
  <2>3. FirstOf(at - 1) = {order_'[j] : j \in 1..(at - 1)}
    BY <2>2 DEF FirstOf
  <2>4. FirstOf(at)' = FirstOf(at - 1)
    BY <2>2, <2>3 DEF FirstOf
  <2>5. QED BY <1>7, <2>1, <2>2, <2>4 DEF InitFails
<1>8. CASE InitDone
  <2>1. at - 1 = Len(order_)
    BY <1>8 DEF InitDone
  <2>2. QED BY <1>8, <2>1 DEF InitDone, FirstOf
<1>9. CASE StartSection
  BY <1>9 DEF StartSection, FirstOf
<1>10. CASE StartDone
  BY <1>10 DEF StartDone, FirstOf
<1>11. CASE LoopTop
  BY <1>11 DEF LoopTop, CallStopAll, FirstOf
<1>12. CASE SkipInvalid
  BY <1>12 DEF SkipInvalid, FirstOf
<1>13. CASE StillRunning
  BY <1>13 DEF StillRunning, FirstOf
<1>14. CASE Settled
  BY <1>14 DEF Settled, FirstOf
<1>15. CASE FirstError
  BY <1>15 DEF FirstError, CallStopAll, FirstOf
<1>16. CASE ScanEnd
  <2>1. Len(order_) \in Nat /\ at \in Nat
    OBVIOUS
  <2>2. QED BY <1>16, <2>1 DEF ScanEnd, CallStopAll, CallDeinitAll, FirstOf
<1>17. CASE \E fails \in BOOLEAN : StopSection(fails)
  BY <1>17 DEF StopSection, FirstOf
<1>18. CASE StopDone
  <2>1. Len(order_) \in Nat
    OBVIOUS
  <2>2. QED BY <1>18, <2>1 DEF StopDone, CallDeinitAll, FirstOf
<1>19. CASE \E fails \in BOOLEAN : DeinitPlugin(fails)
  <2>1. PICK fails \in BOOLEAN : DeinitPlugin(fails)
    BY <1>19
  <2>2. at \in 1..Len(order_) /\ Len(order_) \in Nat /\ live = FirstOf(at)
    BY <2>1 DEF DeinitPlugin
  <2>3. live' = FirstOf(at - 1)
    BY <2>1, <2>2, FirstOfStep DEF DeinitPlugin, Ordered
  <2>4. FirstOf(at)' = FirstOf(at - 1)
    BY <2>1 DEF DeinitPlugin, FirstOf
  <2>5. QED BY <2>1, <2>2, <2>3, <2>4 DEF DeinitPlugin
<1>20. CASE DeinitDone
  BY <1>20, FirstOfNone DEF DeinitDone
<1>21. CASE \E s \in Sections : ThreadBegins(s)
  BY <1>21 DEF ThreadBegins, FirstOf
<1>22. CASE \E s \in Sections, fails \in BOOLEAN : ThreadEnds(s, fails)
  BY <1>22 DEF ThreadEnds, FirstOf
<1>23. CASE Signal
  BY <1>23 DEF Signal, FirstOf
<1>24. CASE UNCHANGED vars
  BY <1>24 DEF vars, FirstOf
<1>25. QED
  BY <1>1, <1>2, <1>3, <1>4, <1>5, <1>6, <1>7, <1>8, <1>9, <1>10, <1>11, <1>12, <1>13,
     <1>14, <1>15, <1>16, <1>17, <1>18, <1>19, <1>20, <1>21, <1>22, <1>23, <1>24
  DEF Next, Main, Thread, Exited

\* A future is consumed only when its thread has ended, and every scan that is
\* not repeated consumes them all.
LEMMA FuturesStep == IInv /\ [Next]_vars => Futures'
<1> SUFFICES ASSUME IInv, [Next]_vars PROVE Futures'
  OBVIOUS
<1> USE DEF before, during, errors, Futures, TypeOK, Loading, Sections
<1>0. TypeOK /\ Futures /\ Initialised
  BY DEF IInv
<1> USE <1>0, LoaderAssumption
<1>1. CASE Load BY <1>1 DEF Load
<1>2. CASE LoadThrows BY <1>2 DEF LoadThrows
<1>3. CASE \E p \in Plugins : Visit(p) BY <1>3 DEF Visit
<1>4. CASE Visited BY <1>4 DEF Visited
<1>5. CASE Sorted BY <1>5 DEF Sorted
<1>6. CASE InitPlugin BY <1>6 DEF InitPlugin
<1>7. CASE InitFails BY <1>7 DEF InitFails
<1>8. CASE InitDone BY <1>8 DEF InitDone
<1>9. CASE StartSection
  <2>1. CASE PluginOf[at] \in startable
    <3>1. /\ thread' = [thread EXCEPT ![at] = "launched"] /\ valid' = valid \cup {at}
          /\ pc' = "start" /\ pc = "start" /\ at' = at + 1 /\ at \in Sections
      BY <1>9, <2>1 DEF StartSection, Initialised
    <3>2. /\ \A s \in Sections : thread'[s] \in {"launched", "running"} => s \in valid'
          /\ \A s \in valid' : s < at'
      BY <3>1
    <3>3. QED BY <3>1, <3>2
  <2>2. CASE PluginOf[at] \notin startable
    <3>1. UNCHANGED <<thread, valid>> /\ pc' = "start" /\ pc = "start" /\ at' = at + 1
      BY <1>9, <2>2 DEF StartSection
    <3>2. \A s \in valid : s < at + 1
      BY <3>1
    <3>3. QED BY <3>1, <3>2
  <2>3. QED BY <2>1, <2>2
<1>10. CASE StartDone BY <1>10 DEF StartDone
<1>11. CASE LoopTop
  <2>1. \A s \in valid : s >= 1
    OBVIOUS
  <2>2. fut' = 1 /\ UNCHANGED <<thread, valid>>
    BY <1>11 DEF LoopTop
  <2>3. pc' = "scan" \/ (pc' = "stop" /\ reason' = "signal")
    BY <1>11 DEF LoopTop, CallStopAll
  <2>4. QED BY <2>1, <2>2, <2>3
<1>12. CASE SkipInvalid BY <1>12 DEF SkipInvalid, NextFuture
<1>13. CASE StillRunning BY <1>13 DEF StillRunning, NextFuture, Ended
<1>14. CASE Settled BY <1>14 DEF Settled, NextFuture, Ended
<1>15. CASE FirstError BY <1>15 DEF FirstError, NextFuture, CallStopAll
<1>16. CASE ScanEnd
  <2>1. CASE have_unsettled_futures
    BY <1>16, <2>1 DEF ScanEnd
  <2>2. CASE ~have_unsettled_futures
    <3>1. valid = {}
      BY <1>16, <2>2 DEF ScanEnd
    <3>2. pc' \in {"stop", "deinit"}
      BY <1>16, <2>2 DEF ScanEnd, CallStopAll, CallDeinitAll
    <3>3. QED BY <1>16, <2>2, <3>1, <3>2 DEF ScanEnd
  <2>3. QED BY <2>1, <2>2
<1>17. CASE \E fails \in BOOLEAN : StopSection(fails) BY <1>17 DEF StopSection
<1>18. CASE StopDone
  <2>1. CASE reason = "finished"
    <3>1. valid = {}
      BY <1>18, <2>1 DEF StopDone
    <3>2. pc' = "deinit" /\ UNCHANGED <<thread, valid>>
      BY <1>18, <2>1 DEF StopDone, CallDeinitAll
    <3>3. QED BY <3>1, <3>2
  <2>2. CASE reason # "finished"
    BY <1>18, <2>2 DEF StopDone
  <2>3. QED BY <2>1, <2>2
<1>19. CASE \E fails \in BOOLEAN : DeinitPlugin(fails) BY <1>19 DEF DeinitPlugin
<1>20. CASE DeinitDone BY <1>20 DEF DeinitDone
<1>21. CASE \E s \in Sections : ThreadBegins(s) BY <1>21 DEF ThreadBegins
<1>22. CASE \E s \in Sections, fails \in BOOLEAN : ThreadEnds(s, fails)
  BY <1>22 DEF ThreadEnds
<1>23. CASE Signal BY <1>23 DEF Signal
<1>24. CASE UNCHANGED vars BY <1>24 DEF vars
<1>25. QED
  BY <1>1, <1>2, <1>3, <1>4, <1>5, <1>6, <1>7, <1>8, <1>9, <1>10, <1>11, <1>12, <1>13,
     <1>14, <1>15, <1>16, <1>17, <1>18, <1>19, <1>20, <1>21, <1>22, <1>23, <1>24
  DEF Next, Main, Thread, Exited

\* main_loop() calls stop_all() only while called_stop_all is not set.
LEMMA StopCallsStep == IInv /\ [Next]_vars => StopCalls'
<1> SUFFICES ASSUME IInv, [Next]_vars PROVE StopCalls'
  OBVIOUS
<1> USE DEF before, during, errors, StopCalls, TypeOK, Loading, Errors, None, First, Sections
<1>0. TypeOK /\ StopCalls /\ Initialised
  BY DEF IInv
<1> USE <1>0, LoaderAssumption
<1>1. CASE Load BY <1>1 DEF Load
<1>2. CASE LoadThrows BY <1>2 DEF LoadThrows
<1>3. CASE \E p \in Plugins : Visit(p) BY <1>3 DEF Visit
<1>4. CASE Visited BY <1>4 DEF Visited
<1>5. CASE Sorted BY <1>5 DEF Sorted
<1>6. CASE InitPlugin BY <1>6 DEF InitPlugin
<1>7. CASE InitFails BY <1>7 DEF InitFails
<1>8. CASE InitDone BY <1>8 DEF InitDone
<1>9. CASE StartSection BY <1>9 DEF StartSection
<1>10. CASE StartDone BY <1>10 DEF StartDone
<1>11. CASE LoopTop BY <1>11 DEF LoopTop, CallStopAll, NotStopped
<1>12. CASE SkipInvalid BY <1>12 DEF SkipInvalid, NextFuture
<1>13. CASE StillRunning BY <1>13 DEF StillRunning, NextFuture
<1>14. CASE Settled BY <1>14 DEF Settled, NextFuture
<1>15. CASE FirstError BY <1>15 DEF FirstError, NextFuture, CallStopAll, NotStopped
<1>16. CASE ScanEnd BY <1>16 DEF ScanEnd, CallStopAll, CallDeinitAll, NotStopped
<1>17. CASE \E fails \in BOOLEAN : StopSection(fails) BY <1>17 DEF StopSection, Initialised
<1>18. CASE StopDone BY <1>18 DEF StopDone, CallDeinitAll, AfterStop
<1>19. CASE \E fails \in BOOLEAN : DeinitPlugin(fails) BY <1>19 DEF DeinitPlugin
<1>20. CASE DeinitDone BY <1>20 DEF DeinitDone
<1>21. CASE \E s \in Sections : ThreadBegins(s) BY <1>21 DEF ThreadBegins
<1>22. CASE \E s \in Sections, fails \in BOOLEAN : ThreadEnds(s, fails)
  BY <1>22 DEF ThreadEnds
<1>23. CASE Signal BY <1>23 DEF Signal
<1>24. CASE UNCHANGED vars BY <1>24 DEF vars
<1>25. QED
  BY <1>1, <1>2, <1>3, <1>4, <1>5, <1>6, <1>7, <1>8, <1>9, <1>10, <1>11, <1>12, <1>13,
     <1>14, <1>15, <1>16, <1>17, <1>18, <1>19, <1>20, <1>21, <1>22, <1>23, <1>24
  DEF Next, Main, Thread, Exited

\* An error leaves the future it was kept by only when there is an earlier one.
LEMMA ErrorsKeptStep == IInv /\ [Next]_vars => ErrorsKept'
<1> SUFFICES ASSUME IInv, [Next]_vars PROVE ErrorsKept'
  OBVIOUS
<1> USE DEF before, during, errors, ErrorsKept, TypeOK, Loading, Errors, None, First, Sections
<1>0. TypeOK /\ ErrorsKept /\ Futures /\ StopCalls /\ Initialised
  BY DEF IInv
<1> USE <1>0, LoaderAssumption
<1>1. CASE Load BY <1>1 DEF Load
<1>2. CASE LoadThrows BY <1>2 DEF LoadThrows
<1>3. CASE \E p \in Plugins : Visit(p) BY <1>3 DEF Visit
<1>4. CASE Visited BY <1>4 DEF Visited
<1>5. CASE Sorted BY <1>5 DEF Sorted
<1>6. CASE InitPlugin BY <1>6 DEF InitPlugin
<1>7. CASE InitFails BY <1>7 DEF InitFails
<1>8. CASE InitDone BY <1>8 DEF InitDone
<1>9. CASE StartSection
  <2>1. CASE PluginOf[at] \in startable
    <3>1. /\ thread' = [thread EXCEPT ![at] = "launched"] /\ valid' = valid \cup {at}
          /\ pc' = "start" /\ pc = "start" /\ at' = at + 1 /\ at \in Sections
          /\ UNCHANGED errors
      BY <1>9, <2>1 DEF StartSection, Initialised
    <3>2. (\E s \in valid' : thread'[s] = "failed") <=> \E s \in valid : thread[s] = "failed"
      BY <3>1 DEF Futures
    <3>3. QED BY <3>1, <3>2
  <2>2. CASE PluginOf[at] \notin startable
    BY <1>9, <2>2 DEF StartSection
  <2>3. QED BY <2>1, <2>2
<1>10. CASE StartDone BY <1>10 DEF StartDone
<1>11. CASE LoopTop BY <1>11 DEF LoopTop, CallStopAll
<1>12. CASE SkipInvalid BY <1>12 DEF SkipInvalid, NextFuture
<1>13. CASE StillRunning BY <1>13 DEF StillRunning, NextFuture
<1>14. CASE Settled BY <1>14 DEF Settled, NextFuture, Ended
<1>15. CASE FirstError BY <1>15 DEF FirstError, NextFuture, CallStopAll
<1>16. CASE ScanEnd BY <1>16 DEF ScanEnd, CallStopAll, CallDeinitAll
<1>17. CASE \E fails \in BOOLEAN : StopSection(fails) BY <1>17 DEF StopSection
<1>18. CASE StopDone BY <1>18 DEF StopDone, CallDeinitAll, AfterStop
<1>19. CASE \E fails \in BOOLEAN : DeinitPlugin(fails) BY <1>19 DEF DeinitPlugin
<1>20. CASE DeinitDone BY <1>20 DEF DeinitDone
<1>21. CASE \E s \in Sections : ThreadBegins(s) BY <1>21 DEF ThreadBegins
<1>22. CASE \E s \in Sections, fails \in BOOLEAN : ThreadEnds(s, fails)
  BY <1>22 DEF ThreadEnds, Futures
<1>23. CASE Signal BY <1>23 DEF Signal
<1>24. CASE UNCHANGED vars BY <1>24 DEF vars
<1>25. QED
  BY <1>1, <1>2, <1>3, <1>4, <1>5, <1>6, <1>7, <1>8, <1>9, <1>10, <1>11, <1>12, <1>13,
     <1>14, <1>15, <1>16, <1>17, <1>18, <1>19, <1>20, <1>21, <1>22, <1>23, <1>24
  DEF Next, Main, Thread, Exited

\* Nothing is loaded.
LEMMA Initially == Init => IInv
<1> SUFFICES ASSUME Init PROVE IInv
  OBVIOUS
<1> USE LoaderAssumption DEF Init
<1>1. TypeOK
  <2>1. <<>> \in Seq(Plugins)
    OBVIOUS
  <2>2. /\ requires \in [Plugins -> SUBSET Plugins] /\ startable \subseteq Plugins
        /\ status \in [Plugins -> {"UNVISITED", "ONGOING", "VISITED"}]
        /\ thread \in [Sections -> {"none", "launched", "running", "ok", "failed"}]
        /\ stops \in [Sections -> Nat] /\ running_ \in [Sections -> BOOLEAN]
    OBVIOUS
  <2>3. /\ pc \in Loading /\ at \in Nat /\ fut \in 1..(NumSections + 1)
        /\ first_eptr \in Errors /\ inner_eptr \in Errors
    BY DEF Loading, Errors
  <2>4. QED BY <2>1, <2>2, <2>3 DEF TypeOK
<1>2. DOMAIN order_ = {} /\ DOMAIN stack = {}
  OBVIOUS
<1>3. Topsorting /\ Ordered
  BY <1>2 DEF Topsorting, Ordered, Distinct
<1>4. Initialised /\ Futures
  BY DEF Initialised, Futures
<1>5. StopCalls /\ ErrorsKept
  BY DEF StopCalls, ErrorsKept, Loading, None
<1>6. QED BY <1>1, <1>3, <1>4, <1>5 DEF IInv

\* The order of the plugins, which of them are initialised, what the futures,
\* the calls of stop() and the kept errors say, in every interleaving of the
\* main thread with the threads of the sections and the signal.
THEOREM Invariance == Spec => []IInv
<1>1. IInv /\ [Next]_vars => IInv'
  BY TypeStep, TopsortingStep, OrderedStep, InitialisedStep, FuturesStep, StopCallsStep,
     ErrorsKeptStep DEF IInv
<1>2. QED BY Initially, <1>1, PTL DEF Spec

\* topsort(), init_all() and deinit_all(): for any number of plugins and any
\* relation between them, a plugin is initialised only while those it requires
\* are, and deinit_all() works through exactly the initialised ones.
THEOREM RequirementsLiveAlways == Spec => []RequirementsLive
<1>1. ASSUME IInv PROVE RequirementsLive
  <2>1. TypeOK /\ Ordered /\ Initialised
    BY <1>1 DEF IInv
  <2>2. pc = "deinit" => live = {order_[j] : j \in 1..at}
    BY <2>1 DEF Initialised, FirstOf
  <2>3. live = {} \/ (pc \notin {"load", "topsort"} /\ \E n \in 0..Len(order_) : live = FirstOf(n))
    <3>1. Len(order_) \in Nat
      BY <2>1 DEF TypeOK
    <3>2. CASE pc \in {"load", "topsort", "end"}
      BY <2>1, <3>2 DEF Initialised
    <3>3. CASE pc = "init"
      <4>1. at - 1 \in 0..Len(order_) /\ live = FirstOf(at - 1)
        BY <2>1, <3>1, <3>3 DEF Initialised
      <4>2. QED BY <3>3, <4>1
    <3>4. CASE pc \in {"start", "loop", "scan", "stop"}
      <4>1. Len(order_) \in 0..Len(order_) /\ live = FirstOf(Len(order_))
        BY <2>1, <3>1, <3>4 DEF Initialised
      <4>2. QED BY <3>4, <4>1
    <3>5. CASE pc = "deinit"
      BY <2>1, <3>5 DEF Initialised
    <3>6. QED BY <2>1, <3>2, <3>3, <3>4, <3>5 DEF TypeOK, Loading
  <2>4. ASSUME NEW p \in live, NEW q \in requires[p] PROVE q \in live
    <3>1. PICK n \in 0..Len(order_) : live = FirstOf(n)
      BY <2>3
    <3>2. PICK i \in 1..n : order_[i] = p
      BY <3>1 DEF FirstOf
    <3>3. Len(order_) \in Nat /\ DOMAIN order_ = 1..Len(order_)
      BY <2>1 DEF TypeOK
    <3>4. PICK j \in DOMAIN order_ : j < i /\ order_[j] = q
      BY <2>1, <2>3, <2>4, <3>2, <3>3 DEF Ordered
    <3>5. j \in 1..n
      BY <3>2, <3>3, <3>4
    <3>6. QED BY <3>1, <3>4, <3>5 DEF FirstOf
  <2>5. \A p \in live : requires[p] \subseteq live
    BY <2>4
  <2>6. QED BY <2>2, <2>5 DEF RequirementsLive
<1>2. QED BY Invariance, <1>1, PTL

\* main_loop(): deinit_all() begins only after every start() has returned, for
\* any number of sections.
THEOREM QuietDeinitAlways == Spec => []QuietDeinit
<1>1. IInv => QuietDeinit
  BY DEF IInv, Futures, QuietDeinit
<1>2. QED BY Invariance, <1>1, PTL

\* stop() of every section is called once in a run that started them, whichever
\* of the three callers of stop_all() comes first, and never in another run.
THEOREM StopsOnceAlways == Spec => []StopsOnce
<1>1. IInv => StopsOnce
  BY DEF IInv, TypeOK, StopCalls, StopsOnce
<1>2. QED BY Invariance, <1>1, PTL

\* run() returns an error exactly if a plugin function raised one.
THEOREM ErrorReportedAlways == Spec => []ErrorReported
<1>1. IInv => ErrorReported
  BY DEF IInv, Futures, ErrorsKept, ErrorReported
<1>2. QED BY Invariance, <1>1, PTL
=============================================================================
