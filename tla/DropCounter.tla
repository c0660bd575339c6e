----------------------------- MODULE DropCounter -----------------------------
(***************************************************************************)
(* How dropped packets are counted: the counters of the Agent's drop rules *)
(* in the kernel, which start again at zero with every table, the          *)
(* cumulative counter the collector keeps over them in memory and in       *)
(* telemetry-drop-counter.json (internal/telemetry/collector.go), the      *)
(* reports that carry it, and the samples the controller keeps for each    *)
(* minute and turns into the drops of each interval of a chart             *)
(* (UpdateTelemetry, ListMetricSamples, internal/store/store.go).          *)
(*                                                                         *)
(* The file is renamed into place.  Samples are reals in SQLite, exact up  *)
(* to 2^53; a sample's other columns are not modelled.                     *)
(***************************************************************************)
EXTENDS Naturals, FiniteSets, FiniteSetsExt

CONSTANTS MaxCount,   \* 2^64 - 1
          MaxDrops,   \* bound: packets dropped
          MaxMinute,  \* bound: minutes
          MaxReports, \* bound: reports on their way, of an old and a new connection
          NoSample

ASSUME CountAssumption ==
    /\ MaxCount \in Nat /\ MaxDrops \in Nat /\ MaxMinute \in Nat \ {0} /\ MaxReports \in Nat
    /\ NoSample \notin Nat

Minutes == 1..MaxMinute

VARIABLES
  kernel,  \* the packets the drop rules of the table have counted
  counter, \* Collector.dropState: total, raw (LastRaw), ready
  disk,    \* the same in the file
  minute,  \* the Agent's clock
  reports, \* on their way to the controller: DroppedTotal and the minute of CollectedAt
  samples, \* metric_samples.dropped_total of each minute, NoSample for no row
  \* History: no step reads these.
  real,      \* packets dropped
  replaced,  \* the table has been replaced
  forgotten  \* the Agent was restarted with an older counter than it had

counterVars == <<kernel, counter, disk, minute, reports, samples, real, replaced, forgotten>>

Fresh == [total |-> 0, raw |-> 0, ready |-> FALSE]

\* A new Agent over a table that may have dropped something already.
CounterInit ==
    /\ kernel \in 0..MaxDrops /\ real = kernel
    /\ counter = Fresh /\ disk = Fresh
    /\ minute = 1 /\ reports = {} /\ samples = [m \in Minutes |-> NoSample]
    /\ replaced = FALSE /\ forgotten = FALSE

-----------------------------------------------------------------------------
\* The kernel.

Drop ==
    /\ real < MaxDrops
    /\ kernel' = kernel + 1 /\ real' = real + 1
    /\ UNCHANGED <<counter, disk, minute, reports, samples, replaced, forgotten>>

\* Manager.Apply, Rollback or Ensure loads the table anew, or the host was restarted.
ReplaceTable ==
    /\ kernel' = 0 /\ replaced' = TRUE
    /\ UNCHANGED <<counter, disk, minute, reports, samples, real, forgotten>>

-----------------------------------------------------------------------------
\* The collector.

\* Counters and their sum stop at the largest number.
saturate(n) == IF n > MaxCount THEN MaxCount ELSE n
saturatingAdd(left, right) == saturate(left + right)

\* Mutant of cumulativeDrops: a counter that has started again is a difference, too.
CumulativeModulo(raw) ==
    [total |-> IF counter.ready /\ raw < counter.raw
               THEN saturatingAdd(counter.total, MaxCount + 1 + raw - counter.raw)
               ELSE IF counter.ready THEN saturatingAdd(counter.total, raw - counter.raw) ELSE raw,
     raw |-> raw, ready |-> TRUE]

cumulativeDrops(raw) ==
    [total |-> IF ~counter.ready THEN raw
               ELSE IF raw >= counter.raw THEN saturatingAdd(counter.total, raw - counter.raw)
               ELSE saturatingAdd(counter.total, raw),
     raw |-> raw, ready |-> TRUE]

Submit(total) ==
    /\ Cardinality(reports) < MaxReports
    /\ reports' = reports \cup {[dropped |-> total, minute |-> minute]}

\* Collect: an error of the write is ignored.
Collect ==
    /\ counter' = cumulativeDrops(saturate(kernel))
    /\ disk' \in {counter', disk}
    /\ Submit(counter'.total)
    /\ UNCHANGED <<kernel, minute, samples, real, replaced, forgotten>>

\* The table is not there, or cannot be listed.
CollectNothing ==
    /\ Submit(counter.total)
    /\ UNCHANGED <<kernel, counter, disk, minute, samples, real, replaced, forgotten>>

\* NewCollector.
RestartAgent ==
    /\ counter' = disk /\ forgotten' = (forgotten \/ counter # disk)
    /\ UNCHANGED <<kernel, disk, minute, reports, samples, real, replaced>>

Tick ==
    /\ minute < MaxMinute /\ minute' = minute + 1
    /\ UNCHANGED <<kernel, counter, disk, reports, samples, real, replaced, forgotten>>

-----------------------------------------------------------------------------
\* The controller.

\* UpdateTelemetry: the row of the report's minute, whichever report comes last.
Arrive(r) ==
    /\ reports' = reports \ {r}
    /\ samples' = [samples EXCEPT ![r.minute] = r.dropped]
    /\ UNCHANGED <<kernel, counter, disk, minute, real, replaced, forgotten>>

\* Its connection ended, or the last report was less than four seconds ago.
Lose(r) ==
    /\ reports' = reports \ {r}
    /\ UNCHANGED <<kernel, counter, disk, minute, samples, real, replaced, forgotten>>

\* ListMetricSamples: the largest sample of each interval of step minutes that has one, and
\* the drops of the interval against the last one before it.
Intervals(step) == {m \div step : m \in {n \in Minutes : samples[n] # NoSample}}
DroppedTotal(step, i) == Max({samples[m] : m \in {n \in Minutes : samples[n] # NoSample /\ n \div step = i}})
DroppedDelta(step, i) ==
    LET before == {j \in Intervals(step) : j < i}
        total == DroppedTotal(step, i)
        previous == DroppedTotal(step, Max(before))
    IN  IF before = {} THEN 0 ELSE IF total >= previous THEN total - previous ELSE total

-----------------------------------------------------------------------------
CounterNext ==
    \/ Drop \/ ReplaceTable
    \/ Collect \/ CollectNothing \/ RestartAgent \/ Tick
    \/ \E r \in reports : Arrive(r) \/ Lose(r)

CounterSpec == CounterInit /\ [][CounterNext]_counterVars

-----------------------------------------------------------------------------
\* What the drop rules counted before the last sample cannot be counted again, and while the
\* table stays nothing is missed, whatever writes fail, restarts and samples fall between
\* (cumulativeDrops).
CounterTrue ==
    /\ counter.total <= saturate(real)
    /\ counter.ready /\ ~replaced =>
           saturatingAdd(counter.total, saturate(kernel) - counter.raw) = saturate(real)

\* A chart shows no packet twice: the drops of all its intervals and those before its first
\* are at most the packets dropped, however reports of two connections overtake each other
\* and minutes are grouped (UpdateTelemetry's upsert, ListMetricSamples), unless a counter
\* whose last state could not be saved was lost with the Agent.
ChartTrue == ~forgotten =>
    \A step \in Minutes : Intervals(step) # {} =>
        DroppedTotal(step, Min(Intervals(step))) + MapThenSumSet(LAMBDA i : DroppedDelta(step, i), Intervals(step))
            <= real

CountedOnce == CounterTrue /\ ChartTrue
=============================================================================
