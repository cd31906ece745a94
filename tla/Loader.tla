------------------------------- MODULE Loader -------------------------------
(***************************************************************************)
(* The life cycle of the plugins: Loader::start() loads them, sorts them   *)
(* topologically, calls init() in that order, runs start() of every        *)
(* section in a thread of its own, waits in main_loop() for a shutdown     *)
(* signal, an error or the end of all threads, calls stop() for every      *)
(* section and deinit() in the reverse order.                              *)
(*                                                                         *)
(* The main thread is pc; a plugin function either succeeds or calls       *)
(* set_error(), and one that is not implemented is one that does nothing,  *)
(* except that a section without start() has no thread.  An error is       *)
(* the name of the function that raised it.                                *)
(***************************************************************************)
EXTENDS Naturals, Sequences, FiniteSets

CONSTANTS
  Plugins,      \* the plugins of plugins_
  NumSections,  \* config_.sections().size()
  PluginOf      \* section->name of every section

Sections == 1 .. NumSections

ASSUME LoaderAssumption ==
  /\ IsFiniteSet(Plugins)
  /\ NumSections \in Nat
  /\ PluginOf \in [Sections -> Plugins]

VARIABLES
  requires,           \* plugin->requires of every plugin
  startable,          \* the plugins that implement start()
  pc,                 \* where the main thread is
  status,             \* topsort(): UNVISITED, ONGOING or VISITED
  stack,              \* topsort(): the calls of visit() under way
  order_,
  at,                 \* the position in order_ or in config_.sections()
  fut,                \* the position of main_loop() in sessions_
  thread,             \* the thread that runs start() of a section
  running_,           \* the flag of its PluginFuncEnv
  valid,              \* the sections whose future in sessions_ is valid()
  g_shutdown_pending,
  have_unsettled_futures,
  called_stop_all,
  reason,             \* which of its three callers runs stop_all()
  first_eptr,         \* that of main_loop() and run()
  inner_eptr,         \* that of stop_all() or deinit_all()
  live,               \* auxiliary: init() done, deinit() not
  stops,              \* auxiliary: how often stop() of a section was called
  raised              \* auxiliary: some function raised an error

before == <<requires, startable, status, stack, order_, live>>
during == <<thread, running_, valid, fut, have_unsettled_futures,
            g_shutdown_pending, called_stop_all, reason, stops>>
errors == <<first_eptr, inner_eptr, raised>>
vars == <<pc, at, before, during, errors>>

None == "none"
Errors == {None, "load", "init", "start", "stop", "deinit"}
Loading == {"load", "topsort", "init", "start"}

TypeOK ==
  /\ requires \in [Plugins -> SUBSET Plugins]
  /\ startable \subseteq Plugins
  /\ pc \in Loading \cup {"loop", "scan", "stop", "deinit", "end"}
  /\ status \in [Plugins -> {"UNVISITED", "ONGOING", "VISITED"}]
  /\ stack \in Seq(Plugins)
  /\ order_ \in Seq(Plugins)
  /\ at \in Nat
  /\ fut \in 1 .. NumSections + 1
  /\ thread \in [Sections -> {"none", "launched", "running", "ok", "failed"}]
  /\ running_ \in [Sections -> BOOLEAN]
  /\ valid \subseteq Sections
  /\ g_shutdown_pending \in BOOLEAN
  /\ have_unsettled_futures \in BOOLEAN
  /\ called_stop_all \in BOOLEAN
  /\ reason \in {"none", "signal", "error", "finished"}
  /\ first_eptr \in Errors
  /\ inner_eptr \in Errors
  /\ live \subseteq Plugins
  /\ stops \in [Sections -> Nat]
  /\ raised \in BOOLEAN

\* "if (!first_eptr) first_eptr = e"
First(eptr, e) == IF eptr = None THEN e ELSE eptr

Instances(p) == {s \in Sections : PluginOf[s] = p}

\* What load_all() can finish with: load_from() recurs into the required
\* plugins, so that a cycle never returns, and load() of a required plugin
\* takes exactly one section of that name.
Loadable(r) ==
  /\ \E rank \in [Plugins -> 0 .. Cardinality(Plugins)] :
       \A p \in Plugins : \A q \in r[p] : rank[q] < rank[p]
  /\ \A p \in Plugins : Instances(p) # {}
  /\ \A p \in Plugins : \A q \in r[p] : Cardinality(Instances(q)) = 1

Init ==
  /\ requires \in {r \in [Plugins -> SUBSET Plugins] : Loadable(r)}
  /\ startable \in SUBSET Plugins
  /\ pc = "load"
  /\ status = [p \in Plugins |-> "UNVISITED"]
  /\ stack = <<>>
  /\ order_ = <<>>
  /\ at = 1
  /\ fut = 1
  /\ thread = [s \in Sections |-> "none"]
  /\ running_ = [s \in Sections |-> FALSE]
  /\ valid = {}
  /\ g_shutdown_pending = FALSE
  /\ have_unsettled_futures = FALSE
  /\ called_stop_all = FALSE
  /\ reason = "none"
  /\ first_eptr = None
  /\ inner_eptr = None
  /\ live = {}
  /\ stops = [s \in Sections |-> 0]
  /\ raised = FALSE

-----------------------------------------------------------------------------
(* load_all() and topsort().                                               *)

Load ==
  /\ pc = "load"
  /\ pc' = "topsort"
  /\ UNCHANGED <<at, before, during, errors>>

\* A library is missing, has another ABI or not the version required.
LoadThrows ==
  /\ pc = "load"
  /\ pc' = "end"
  /\ first_eptr' = "load"
  /\ raised' = TRUE
  /\ UNCHANGED <<at, before, during, inner_eptr>>

\* The plugins that visit() or the loop of topsort() may call visit() for.
Callable == IF stack = <<>> THEN Plugins ELSE requires[Head(stack)]

\* visit() of an unvisited plugin; of a visited one it returns at once.
Visit(p) ==
  /\ pc = "topsort"
  /\ p \in Callable
  /\ status[p] = "UNVISITED"
  /\ status' = [status EXCEPT ![p] = "ONGOING"]
  /\ stack' = <<p>> \o stack
  /\ UNCHANGED <<pc, at, requires, startable, order_, live, during, errors>>

\* All required plugins are visited: push_front() and return.
Visited ==
  /\ pc = "topsort"
  /\ stack # <<>>
  /\ \A q \in requires[Head(stack)] : status[q] = "VISITED"
  /\ status' = [status EXCEPT ![Head(stack)] = "VISITED"]
  /\ order_' = <<Head(stack)>> \o order_
  /\ stack' = Tail(stack)
  /\ UNCHANGED <<pc, at, requires, startable, live, during, errors>>

\* Mutant: the order of topsort() is used as it is.
NotReversed(s) == s

Reversed(s) == [i \in 1..Len(s) |-> s[Len(s) + 1 - i]]

\* order_.reverse() of init_all().
Sorted ==
  /\ pc = "topsort"
  /\ stack = <<>>
  /\ \A p \in Plugins : status[p] = "VISITED"
  /\ order_' = Reversed(order_)
  /\ pc' = "init"
  /\ UNCHANGED <<at, requires, startable, status, stack, live, during, errors>>

-----------------------------------------------------------------------------
(* init_all() and start_all().                                             *)

InitPlugin ==
  /\ pc = "init"
  /\ at <= Len(order_)
  /\ live' = live \cup {order_[at]}
  /\ at' = at + 1
  /\ UNCHANGED <<pc, requires, startable, status, stack, order_, during, errors>>

\* order_.erase(it, order_.end())
EraseFrom(s, n) == SubSeq(s, 1, n - 1)

\* This plugin and the rest are not deinitialised, start_all() is skipped.
InitFails ==
  /\ pc = "init"
  /\ at <= Len(order_)
  /\ first_eptr' = "init"
  /\ raised' = TRUE
  /\ order_' = EraseFrom(order_, at)
  /\ at' = Len(order_')
  /\ pc' = "deinit"
  /\ UNCHANGED <<requires, startable, status, stack, live, during, inner_eptr>>

InitDone ==
  /\ pc = "init"
  /\ at > Len(order_)
  /\ at' = 1
  /\ pc' = "start"
  /\ UNCHANGED <<before, during, errors>>

\* One section of start_all(), up to env_promise.get_future().get().
StartSection ==
  /\ pc = "start"
  /\ at <= NumSections
  /\ IF PluginOf[at] \in startable
     THEN /\ thread' = [thread EXCEPT ![at] = "launched"]
          /\ running_' = [running_ EXCEPT ![at] = TRUE]
          /\ valid' = valid \cup {at}
     ELSE UNCHANGED <<thread, running_, valid>>
  /\ at' = at + 1
  /\ UNCHANGED <<pc, before, fut, have_unsettled_futures, g_shutdown_pending,
                 called_stop_all, reason, stops, errors>>

\* set_signal_handlers() delivers what was blocked since block_all_signals().
StartDone ==
  /\ pc = "start"
  /\ at > NumSections
  /\ pc' = "loop"
  /\ UNCHANGED <<at, before, during, errors>>

-----------------------------------------------------------------------------
(* main_loop() and stop_all().                                             *)

\* Mutant: stop_all() is called again.
StopAgain == TRUE

\* if (!called_stop_all)
NotStopped == ~called_stop_all

\* stop_all() begins.
CallStopAll(why) ==
  /\ pc' = "stop"
  /\ at' = 1
  /\ reason' = why
  /\ inner_eptr' = None

\* The top of the do-loop, with the check for the signal.
LoopTop ==
  /\ pc = "loop"
  /\ have_unsettled_futures' = FALSE
  /\ fut' = 1
  /\ IF g_shutdown_pending /\ NotStopped
     THEN CallStopAll("signal")
     ELSE pc' = "scan" /\ UNCHANGED <<at, reason, inner_eptr>>
  /\ UNCHANGED <<before, thread, running_, valid, g_shutdown_pending,
                 called_stop_all, stops, first_eptr, raised>>

\* Mutant: a thread that has not called start() yet is taken for settled.
EndedOrNotBegun(s) == thread[s] # "running"

\* fut.wait_until(timepoint) == std::future_status::ready
Ended(s) == thread[s] \in {"ok", "failed"}

NextFuture == fut + 1

\* A section without start(), or whose future was consumed before.
SkipInvalid ==
  /\ pc = "scan"
  /\ fut \in Sections \ valid
  /\ fut' = NextFuture
  /\ UNCHANGED <<pc, at, before, thread, running_, valid, have_unsettled_futures,
                 g_shutdown_pending, called_stop_all, reason, stops, errors>>

StillRunning ==
  /\ pc = "scan"
  /\ fut \in valid
  /\ ~Ended(fut)
  /\ have_unsettled_futures' = TRUE
  /\ fut' = NextFuture
  /\ UNCHANGED <<pc, at, before, thread, running_, valid, g_shutdown_pending,
                 called_stop_all, reason, stops, errors>>

\* fut.get() of a thread that ended well, or whose error is not the first.
Settled ==
  /\ pc = "scan"
  /\ fut \in valid
  /\ Ended(fut)
  /\ thread[fut] = "failed" => first_eptr # None
  /\ valid' = valid \ {fut}
  /\ fut' = NextFuture
  /\ UNCHANGED <<pc, at, before, thread, running_, have_unsettled_futures,
                 g_shutdown_pending, called_stop_all, reason, stops, errors>>

\* The first error: kept, and stop_all() called unless it was before.  The
\* scan then goes on with the next future.
FirstError ==
  /\ pc = "scan"
  /\ fut \in valid
  /\ thread[fut] = "failed"
  /\ first_eptr = None
  /\ first_eptr' = "start"
  /\ valid' = valid \ {fut}
  /\ fut' = NextFuture
  /\ IF NotStopped THEN CallStopAll("error")
                   ELSE UNCHANGED <<pc, at, reason, inner_eptr>>
  /\ UNCHANGED <<before, thread, running_, have_unsettled_futures,
                 g_shutdown_pending, called_stop_all, stops, raised>>

\* deinit_all() begins, with the last of order_.
CallDeinitAll ==
  /\ pc' = "deinit"
  /\ at' = Len(order_)
  /\ reason' = "none"
  /\ inner_eptr' = None

\* The end of a scan: once more, or stop_all() if nobody called it, or on to
\* deinit_all().
ScanEnd ==
  /\ pc = "scan"
  /\ fut > NumSections
  /\ IF have_unsettled_futures
     THEN pc' = "loop" /\ UNCHANGED <<at, reason, inner_eptr>>
     ELSE IF NotStopped THEN CallStopAll("finished") ELSE CallDeinitAll
  /\ UNCHANGED <<before, thread, running_, valid, fut, have_unsettled_futures,
                 g_shutdown_pending, called_stop_all, stops, first_eptr, raised>>

\* Mutant: stop() is called, but the flag is not cleared.
FlagKept(flags, s) == flags

\* PluginFuncEnv::clear_running()
ClearRunning(flags, s) == [flags EXCEPT ![s] = FALSE]

\* One section of stop_all(): clear_running(), then stop() in this thread.
StopSection(fails) ==
  /\ pc = "stop"
  /\ at <= NumSections
  /\ running_' = ClearRunning(running_, at)
  /\ stops' = [stops EXCEPT ![at] = @ + 1]
  /\ inner_eptr' = IF fails THEN First(inner_eptr, "stop") ELSE inner_eptr
  /\ raised' = (raised \/ fails)
  /\ at' = at + 1
  /\ UNCHANGED <<pc, before, thread, valid, fut, have_unsettled_futures,
                 g_shutdown_pending, called_stop_all, reason, first_eptr>>

\* Mutant: what stop_all() returned is always dropped.
StopErrorDropped == first_eptr

\* What stop_all() returned is dropped when an error called it: it is not the
\* first then.
AfterStop == IF reason = "error" THEN first_eptr ELSE First(first_eptr, inner_eptr)

StopDone ==
  /\ pc = "stop"
  /\ at > NumSections
  /\ called_stop_all' = TRUE
  /\ first_eptr' = AfterStop
  /\ IF reason = "finished"
     THEN CallDeinitAll
     ELSE pc' = "scan" /\ at' = 1 /\ reason' = "none" /\ inner_eptr' = None
  /\ UNCHANGED <<before, thread, running_, valid, fut, have_unsettled_futures,
                 g_shutdown_pending, stops, raised>>

\* One plugin of deinit_all(), from the back of order_.
DeinitPlugin(fails) ==
  /\ pc = "deinit"
  /\ at > 0
  /\ live' = live \ {order_[at]}
  /\ inner_eptr' = IF fails THEN First(inner_eptr, "deinit") ELSE inner_eptr
  /\ raised' = (raised \/ fails)
  /\ at' = at - 1
  /\ UNCHANGED <<pc, requires, startable, status, stack, order_, during,
                 first_eptr>>

\* run() returns the first of the errors.
DeinitDone ==
  /\ pc = "deinit"
  /\ at = 0
  /\ first_eptr' = First(first_eptr, inner_eptr)
  /\ pc' = "end"
  /\ UNCHANGED <<at, before, during, inner_eptr, raised>>

-----------------------------------------------------------------------------
(* The threads that run start(), and the signals.                          *)

\* The thread has handed out its environment and calls start().
ThreadBegins(s) ==
  /\ thread[s] = "launched"
  /\ thread' = [thread EXCEPT ![s] = "running"]
  /\ UNCHANGED <<pc, at, before, running_, valid, fut, have_unsettled_futures,
                 g_shutdown_pending, called_stop_all, reason, stops, errors>>

\* start() returns: on its own, or because is_running() is false.
ThreadEnds(s, fails) ==
  /\ thread[s] = "running"
  /\ thread' = [thread EXCEPT ![s] = IF fails THEN "failed" ELSE "ok"]
  /\ raised' = (raised \/ fails)
  /\ UNCHANGED <<pc, at, before, running_, valid, fut, have_unsettled_futures,
                 g_shutdown_pending, called_stop_all, reason, stops,
                 first_eptr, inner_eptr>>

\* request_application_shutdown(), from the handlers start_all() installed.
Signal ==
  /\ pc \notin Loading \cup {"end"}
  /\ ~g_shutdown_pending
  /\ g_shutdown_pending' = TRUE
  /\ UNCHANGED <<pc, at, before, thread, running_, valid, fut,
                 have_unsettled_futures, called_stop_all, reason, stops, errors>>

-----------------------------------------------------------------------------

Main ==
  \/ Load
  \/ LoadThrows
  \/ \E p \in Plugins : Visit(p)
  \/ Visited
  \/ Sorted
  \/ InitPlugin
  \/ InitFails
  \/ InitDone
  \/ StartSection
  \/ StartDone
  \/ LoopTop
  \/ SkipInvalid
  \/ StillRunning
  \/ Settled
  \/ FirstError
  \/ ScanEnd
  \/ \E fails \in BOOLEAN : StopSection(fails)
  \/ StopDone
  \/ \E fails \in BOOLEAN : DeinitPlugin(fails)
  \/ DeinitDone

Thread(s) ==
  \/ ThreadBegins(s)
  \/ \E fails \in BOOLEAN : ThreadEnds(s, fails)

\* The process exits.
Exited == pc = "end" /\ UNCHANGED vars

Next ==
  \/ Main
  \/ \E s \in Sections : Thread(s)
  \/ Signal
  \/ Exited

Spec == Init /\ [][Next]_vars

\* start() polls is_running() or waits in wait_for_stop(): the one thing
\* asked of a plugin is that it returns once the flag is cleared.
ThreadHonoursFlag(s) == ~running_[s] /\ \E fails \in BOOLEAN : ThreadEnds(s, fails)

FairSpec ==
  /\ Spec
  /\ WF_vars(Main)
  /\ \A s \in Sections : WF_vars(ThreadBegins(s)) /\ WF_vars(ThreadHonoursFlag(s))

(* Properties.                                                             *)

\* A plugin is initialised after, and deinitialised before, every plugin it
\* requires: at no time, also after a failing init(), is it there without
\* them (topsort(), the erase of init_all(), the reversal of deinit_all()).  And
\* deinit_all() works through the plugins whose init() succeeded and no other,
\* each once: what is left of order_ is what is still initialised.
RequirementsLive ==
  /\ \A p \in live : requires[p] \subseteq live
  /\ pc = "deinit" => live = {order_[j] : j \in 1..at}

\* "They are guaranteed to both have exited before deinit() is called": no
\* thread is before or in start() when deinit_all() begins, however the
\* threads, the errors and the signal interleave with the scan of the futures.
QuietDeinit ==
  pc = "deinit" => \A s \in Sections : thread[s] \notin {"launched", "running"}

\* stop_all() "runs exactly once": stop() of every section is called once in
\* a run that got to start_all(), for whatever reason it ends, and never in
\* a run that did not.
StopsOnce ==
  /\ \A s \in Sections : stops[s] <= 1
  /\ pc = "end" =>
       \A s \in Sections :
         stops[s] = IF first_eptr \in {"load", "init"} THEN 0 ELSE 1

\* run() returns an error if and only if some plugin function raised one:
\* none of the places that ignore an error loses the only one.
ErrorReported == pc = "end" => (first_eptr = None <=> ~raised)

\* A signal, or the error of one section, brings all of them down: every
\* thread is told to stop and main_loop() gets past the last future.
ShutdownCompletes ==
  (g_shutdown_pending \/ \E s \in Sections : thread[s] = "failed") ~> (pc = "end")

=============================================================================
