------------------------------- MODULE Metrics -------------------------------
(***************************************************************************)
(* One scrape of /metrics: Collect of pkg/controller/prom.go, called by    *)
(* the registry's Gather.  Collect lists the instances, spawns a goroutine *)
(* for each one that runs, and waits for them; the registry then closes    *)
(* the channel they send on.  Meanwhile instances come, go and restart as  *)
(* Lifecycle allows.  Scrapes share nothing with each other, so one is     *)
(* modelled.                                                               *)
(***************************************************************************)
EXTENDS FiniteSets, Naturals, Sequences, PromFamilies

CONSTANTS
  Instances,
  FlagLists,      \* the lists metric_flags a start may give
  Missing,        \* there is no run.json
  Garbled         \* a run.json that cannot be decoded, or not yet

ASSUME MetricsAssumption ==
  /\ IsFiniteSet(Instances)
  /\ \A f \in FlagLists : DOMAIN f = 1..Len(f)
  /\ Missing \notin FlagLists /\ Garbled \notin FlagLists

VARIABLES
  life,           \* life[i]: absent, stopped or running
  file,           \* file[i]: run.json: Missing, Garbled or a list of flags
  main,           \* what Collect does next
  todo,           \* the directory entries it has not looked at
  total, running, \* the two gauges it counts
  wg,             \* the counter of the wait group
  pc,             \* pc[i]: what the goroutine of instance i does next
  flags, served,  \* flags[i]: the flags it read from run.json, served[i]: how many it is done with
  closed,         \* the registry closed the channel
  sent,           \* the instances and flags whose metrics the registry took from it
  refused,        \* it took a metric twice, or one nobody had described
  status          \* how the latest scrape was answered

env      == <<life, file>>
collect  == <<main, todo, total, running>>
routines == <<wg, pc, flags, served>>
registry == <<closed, sent, refused, status>>
vars     == <<env, collect, routines, registry>>

Files == FlagLists \cup {Missing, Garbled}

TypeOK ==
  /\ life \in [Instances -> {"absent", "stopped", "running"}]
  /\ file \in [Instances -> Files]
  /\ main \in {"idle", "list", "look", "wait", "answer"}
  /\ todo \subseteq Instances
  /\ total \in 0..Cardinality(Instances) /\ running \in 0..total
  /\ wg \in 0..running
  /\ pc \in [Instances -> {"none", "open", "serve", "send", "done"}]
  /\ flags \in [Instances -> FlagLists \cup {<<>>}]
  /\ served \in [Instances -> Nat] /\ \A i \in Instances : served[i] <= Len(flags[i])
  /\ sent \subseteq Instances \X Known
  /\ closed \in BOOLEAN /\ refused \in BOOLEAN
  /\ status \in {"none", "200", "500"}

Init ==
  /\ life = [i \in Instances |-> "absent"]
  /\ file = [i \in Instances |-> Missing]
  /\ main = "idle" /\ todo = {} /\ total = 0 /\ running = 0 /\ wg = 0
  /\ pc = [i \in Instances |-> "none"]
  /\ flags = [i \in Instances |-> <<>>] /\ served = [i \in Instances |-> 0]
  /\ closed = FALSE /\ sent = {} /\ refused = FALSE /\ status = "none"

-----------------------------------------------------------------------------
(* Collect and the registry around it.                                     *)

Scrape ==
  /\ main = "idle"
  /\ main' = "list"
  /\ total' = 0 /\ running' = 0 /\ wg' = 0
  /\ pc' = [i \in Instances |-> "none"]
  /\ closed' = FALSE /\ status' = "none"
  /\ UNCHANGED <<env, todo, flags, served, sent, refused>>

List ==
  /\ main = "list"
  /\ main' = "look"
  /\ todo' = {i \in Instances : life[i] # "absent"}
  /\ UNCHANGED <<env, total, running, routines, registry>>

AddInGoroutine == 0                             \* mutant: wg.Add moves into the goroutine
Added == 1

\* Running is asked of one entry after the other, long after the listing.
Look(i) ==
  /\ main = "look" /\ i \in todo
  /\ todo' = todo \ {i}
  /\ total' = total + 1
  /\ IF life[i] = "running"
     THEN /\ running' = running + 1
          /\ wg' = wg + Added
          /\ pc' = [pc EXCEPT ![i] = "open"]
     ELSE UNCHANGED <<running, wg, pc>>
  /\ UNCHANGED <<env, main, flags, served, registry>>

\* The gauges total and running are sent, and Collect waits.
Gauges ==
  /\ main = "look" /\ todo = {}
  /\ main' = "wait"
  /\ UNCHANGED <<env, todo, total, running, routines, registry>>

\* Collect returns, and with that the registry closes the channel.
Wait ==
  /\ main = "wait" /\ wg = 0
  /\ main' = "answer" /\ closed' = TRUE
  /\ UNCHANGED <<env, todo, total, running, routines, sent, refused, status>>

\* One metric that is refused makes the whole scrape fail.
Answer ==
  /\ main = "answer"
  /\ main' = "idle"
  /\ status' = IF refused THEN "500" ELSE "200"
  /\ sent' = {} /\ refused' = FALSE
  /\ UNCHANGED <<env, todo, total, running, routines, closed>>

-----------------------------------------------------------------------------
(* collectInstance, one goroutine for each running instance.               *)

DoneTwice == 2                                  \* mutant: Done is deferred and called
Subtracted == Added

\* The deferred wg.Done; the goroutine is gone with all it had read.
Done(i) ==
  /\ pc' = [pc EXCEPT ![i] = "done"]
  /\ wg' = wg - Subtracted
  /\ flags' = [flags EXCEPT ![i] = <<>>] /\ served' = [served EXCEPT ![i] = 0]

TakeFlags(i) ==
  /\ pc' = [pc EXCEPT ![i] = "serve"]
  /\ flags' = [flags EXCEPT ![i] = file[i]]
  /\ UNCHANGED <<wg, served>>

ReadFlagsLeaving(i) ==                          \* mutant: Done is not deferred, an early return
  /\ pc[i] = "open"                             \* leaves without it
  /\ \/ file[i] \in FlagLists /\ TakeFlags(i)
     \/ file[i] \notin FlagLists /\ pc' = [pc EXCEPT ![i] = "done"] /\ UNCHANGED <<flags, served, wg>>
  /\ UNCHANGED <<env, collect, registry>>

\* run.json is that of the run which was seen to run, of a later one, or is gone.
ReadFlags(i) ==
  /\ pc[i] = "open"
  /\ \/ file[i] \in FlagLists /\ TakeFlags(i)
     \/ file[i] \notin FlagLists /\ Done(i)
  /\ UNCHANGED <<env, collect, registry>>

More(i) == served[i] < Len(flags[i])
Flag(i) == flags[i][served[i] + 1]
Skip(i) == served' = [served EXCEPT ![i] = @ + 1]

\* One flag: an unknown one, and a command that fails, give no metric.
Serve(i) ==
  /\ pc[i] = "serve"
  /\ \/ /\ More(i) /\ Flag(i) \in Known /\ life[i] = "running"
        /\ pc' = [pc EXCEPT ![i] = "send"]
        /\ UNCHANGED <<flags, served, wg>>
     \/ More(i) /\ Skip(i) /\ UNCHANGED <<pc, flags, wg>>
     \/ ~More(i) /\ Done(i)
  /\ UNCHANGED <<env, collect, registry>>

\* What the registry checks of each metric: its family is described, and it
\* has not taken one of that family and those labels before.
Refuses(i, flag) ==
  \/ \E m \in Exports(i, flag) : m[1] \notin Described
  \/ \E s \in sent : Exports(i, flag) \cap Exports(s[1], s[2]) # {}

\* The reply is decoded and its metrics are sent.
Send(i) ==
  /\ pc[i] = "send"
  /\ sent' = sent \cup {<<i, Flag(i)>>}
  /\ refused' = (refused \/ Refuses(i, Flag(i)))
  /\ pc' = [pc EXCEPT ![i] = "serve"]
  /\ Skip(i)
  /\ UNCHANGED <<env, collect, wg, flags, closed, status>>

-----------------------------------------------------------------------------
(* What other requests and the bngblasters do meanwhile: the life of each  *)
(* instance is that of the abstract specification the repository           *)
(* implements, with run.json for the file that is written while stopped.   *)

Host == INSTANCE Lifecycle WITH
  Configs  <- Files,
  NoConfig <- Missing,
  phase    <- life,
  config   <- file

HostStep == Host!Next /\ UNCHANGED <<collect, routines, registry>>

\* A create or a start that checked Running before the run began takes run.json
\* away, or writes another one, under the run.
Overwrite(i) ==
  /\ life[i] = "running"
  /\ \E json \in Files : file' = [file EXCEPT ![i] = json]
  /\ UNCHANGED <<life, collect, routines, registry>>

Collector == List \/ (\E i \in Instances : Look(i)) \/ Gauges \/ Wait \/ Answer

Goroutine(i) == ReadFlags(i) \/ Serve(i) \/ Send(i)

Next ==
  \/ Scrape \/ Collector \/ HostStep
  \/ \E i \in Instances : Goroutine(i) \/ Overwrite(i)

Spec == Init /\ [][Next]_vars /\ WF_vars(Collector) /\ \A i \in Instances : WF_vars(Goroutine(i))

-----------------------------------------------------------------------------
\* No goroutine is left that could send on the channel once it is closed, which
\* would panic and take the controller down (prom.go:518 counts it before it is
\* spawned, prom.go:782 uncounts it last, prom.go:526 waits).
NoSendAfterClose == closed => \A i \in Instances : pc[i] \in {"none", "done"}

\* What this rests on.  The wait group counts the goroutines that are on their way;
Active(i) == pc[i] \in {"open", "serve", "send"}

Counted == wg = Cardinality({i \in Instances : Active(i)})

\* none is before Collect has listed the directory, nor after it has waited;
Phases ==
  /\ main \in {"idle", "list", "answer"} => \A i \in Instances : ~Active(i)
  /\ main = "list" => total = 0 /\ \A i \in Instances : pc[i] = "none"
  /\ main = "look" => /\ total + Cardinality(todo) <= Cardinality(Instances)
                     /\ \A i \in todo : pc[i] = "none"
  /\ closed => main \in {"idle", "answer"}
  /\ main \in {"idle", "list"} => sent = {}

\* a goroutine goes through the list it has read, and the registry has taken from
\* it what is behind it.
Taken ==
  /\ \A i \in Instances :
       /\ pc[i] \notin {"serve", "send"} => flags[i] = <<>> /\ served[i] = 0
       /\ pc[i] = "send" => More(i) /\ Flag(i) \in Known
  /\ \A s \in sent :
       \/ pc[s[1]] = "done"
       \/ pc[s[1]] \in {"serve", "send"} /\ \E k \in 1..served[s[1]] : flags[s[1]][k] = s[2]

IInv == TypeOK /\ Counted /\ Phases /\ Taken

\* A scrape ends, whatever happens to run.json and to the instances while their
\* goroutines are on their way (prom.go:782-798).
ScrapeEnds == main # "idle" ~> main = "idle"

\* The registry refuses a metric, and fails the scrape of all instances with it,
\* only if it is of an instance whose run.json lists a flag twice.  Four collectors
\* send the same families of interfaces, and those of all instances meet in one
\* registry: only their labels keep them apart, and every family they send must
\* be one of those Describe lists (prom.go:168-504).
Repeats(list) == \E m, n \in DOMAIN list : m # n /\ list[m] = list[n] /\ list[m] \in Known

OnlyRepeatsFail ==
  [][refused' /\ ~refused =>
       \E i \in Instances : served'[i] # served[i] /\ Repeats(flags[i])]_vars

\* The goroutines and the scrape as the registry sees them.
Role(label) == CASE label = "none" -> "out" [] label = "done" -> "gone" [] OTHER -> "sending"

Stage == CASE main = "idle" -> "idle" [] main = "wait" -> "waiting" [] main = "answer" -> "closed"
           [] OTHER -> "listing"

Abstract == INSTANCE Gather WITH
  Senders <- Instances,
  Items   <- Known,
  phase   <- Stage,
  role    <- [i \in Instances |-> Role(pc[i])],
  taken   <- sent

\* Collect keeps what the registry relies on (prom.go:506-527): who sends was
\* listed, sends for itself, and is gone when the channel is closed.
ImplementsGather == Abstract!Spec

\* A metric that is scraped holds the counter its family names (prom.go:310-317:
\* "Interface TX packets multicast", "Interface TX PPS multicast").
CountersAreTheirs ==
  \A s \in sent : \A f \in DOMAIN Response[s[2]] : Response[s[2]][f] = f

=============================================================================
