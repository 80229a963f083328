----------------------------- MODULE ReadBuild ------------------------------
(* One call of readResult (pkg/updater/read.go, util/gcs/read.go): four    *)
(* goroutines download the files of a build and report on a channel, and   *)
(* the fourth, readSuites, runs a pipeline of three more that lists the    *)
(* artifacts, downloads those that are junit files and collects them.      *)
(*                                                                         *)
(* What the bucket holds is fixed when the call starts: started.json,      *)
(* finished.json and podinfo.json are each "ok", "missing", "eof" (cut     *)
(* short) or "error", started.json also "old" or "zero" for its timestamp; *)
(* an artifact is a junit file that parses ("junit") or does not ("bad"),  *)
(* or some other file; the listing breaks off after listed artifacts if it *)
(* fails.                                                                  *)
EXTENDS Integers, Sequences, SequencesExt, FiniteSets

CONSTANTS Files         \* bound: what the bucket may hold for the build

ASSUME FilesAssumption ==
    \A f \in Files : /\ f.fails \in BOOLEAN /\ f.artifacts \in Seq({"junit", "bad", "other"})
                     /\ f.listed \in 0 .. Len(f.artifacts)

VARIABLES
    files,              \* what the bucket holds
    ctx,                \* the context of the call: "live" or "done"
    json,               \* the three goroutines for one file each
    lister, downloader, appender,   \* the pipeline, and what each has in hand
    artifacts, suitesChan,          \* its channels, of capacity 1
    readSuites,         \* the fourth goroutine: the call of readSuites
    work, ret,          \* readResult: reports to come, and what it returned
    result              \* what the goroutines filled in

buildVars == <<files, ctx, json, lister, downloader, appender, artifacts, suitesChan,
               readSuites, work, ret, result>>

JsonFiles == {"podinfo", "started", "finished"}
Open == [items |-> <<>>, closed |-> FALSE]
IsJunit(art) == art \in {"junit", "bad"}
(* ParseStream: whether the file can be read as a suite or a list of them. *)
Parses(art) == art # "bad"

ReadInit ==
    /\ files \in Files
    /\ ctx = "live"
    /\ json = [f \in JsonFiles |-> "reading"]
    /\ lister = [at |-> "listing", next |-> 1] /\ artifacts = Open
    /\ downloader = [at |-> "receiving", item |-> 0] /\ suitesChan = Open
    /\ appender = [at |-> "receiving", suites |-> <<>>, bad |-> {}]
    /\ readSuites = "waiting"
    /\ work = 4 /\ ret = "none"
    /\ result = [malformed |-> {}, filled |-> {}, suites |-> <<>>, bad |-> {}]

(* readResult cancels its context when it returns, readSuites its own.     *)
Cancelled == ctx = "done" \/ ret # "none"
InnerCancelled == Cancelled \/ readSuites # "waiting"

(* A report of what, received by readResult: an error ends the call.       *)
Reports(err) ==
    /\ ret = "none"
    /\ work' = work - 1
    /\ ret' = IF err # "nil" THEN err ELSE IF work = 1 THEN "result" ELSE "none"
-----------------------------------------------------------------------------
(* The files.  A request whose context is done fails.                      *)
JsonOutcomes(f) ==
    LET Outcome(kind) ==
          CASE kind = "eof" -> "malformed"
            [] kind = "error" -> "error"
            [] f = "started" /\ kind \in {"missing", "zero"} -> "noStart"
            [] kind = "old" -> "ancient"
            [] f = "podinfo" /\ kind = "missing" -> "nil"
            [] OTHER -> "filled"
    IN {Outcome(files[f])} \cup (IF Cancelled THEN {"error"} ELSE {})

(* A file is read, and the outcome reported unless the context is done.    *)
ReadJson(f) ==
    /\ json[f] = "reading"
    /\ \E out \in JsonOutcomes(f) :
         /\ result' = [result EXCEPT
                         !.malformed = IF out = "malformed" THEN @ \cup {f} ELSE @,
                         !.filled = IF out = "filled" THEN @ \cup {f} ELSE @]
         /\ \/ Reports(IF out \in {"malformed", "filled"} THEN "nil" ELSE out)
            \/ Cancelled /\ UNCHANGED <<work, ret>>
    /\ json' = [json EXCEPT ![f] = "gone"]
    /\ UNCHANGED <<files, ctx, lister, downloader, appender, artifacts, suitesChan, readSuites>>
-----------------------------------------------------------------------------
(* The pipeline.  A goroutine that failed reports to readSuites before it  *)
(* closes its channel: "failed" stands for the blocked report.             *)
suiteVars == <<files, ctx, json, work, ret, result>>

ListingFails == files.fails /\ lister.next > files.listed
ListedAll == ~files.fails /\ lister.next > Len(files.artifacts)

List ==
    /\ lister.at = "listing"
    /\ \/ /\ ListedAll
          /\ lister' = [lister EXCEPT !.at = "gone"]
          /\ artifacts' = [artifacts EXCEPT !.closed = TRUE]
       \/ /\ ListingFails \/ InnerCancelled
          /\ lister' = [lister EXCEPT !.at = "failed"]
          /\ UNCHANGED artifacts
       \/ /\ ~ListedAll /\ ~ListingFails
          /\ artifacts.items = <<>>
          /\ artifacts' = [artifacts EXCEPT !.items = <<lister.next>>]
          /\ lister' = [lister EXCEPT !.next = @ + 1]
    /\ UNCHANGED <<suiteVars, downloader, appender, suitesChan, readSuites>>

Download ==
    /\ downloader.at = "receiving"
    /\ \/ /\ artifacts.items # <<>>
          /\ artifacts' = [artifacts EXCEPT !.items = <<>>]
          /\ downloader' = IF IsJunit(files.artifacts[artifacts.items[1]])
                             THEN [at |-> "sending", item |-> artifacts.items[1]] ELSE downloader
          /\ UNCHANGED suitesChan
       \/ /\ artifacts.items = <<>> /\ artifacts.closed
          /\ downloader' = [downloader EXCEPT !.at = "gone"]
          /\ suitesChan' = [suitesChan EXCEPT !.closed = TRUE]
          /\ UNCHANGED artifacts
       \/ /\ InnerCancelled
          /\ downloader' = [downloader EXCEPT !.at = "failed"]
          /\ UNCHANGED <<artifacts, suitesChan>>
    /\ UNCHANGED <<suiteVars, lister, appender, readSuites>>

SendSuite ==
    /\ downloader.at = "sending"
    /\ \/ /\ suitesChan.items = <<>>
          /\ suitesChan' = [suitesChan EXCEPT !.items = <<downloader.item>>]
          /\ downloader' = [at |-> "receiving", item |-> 0]
       \/ /\ InnerCancelled
          /\ downloader' = [downloader EXCEPT !.at = "failed"]
          /\ UNCHANGED suitesChan
    /\ UNCHANGED <<suiteVars, lister, appender, artifacts, readSuites>>

(* The collector takes no notice of the context until the channel closes.  *)
(* It keeps apart what the fourth goroutine will sort: the suites, in      *)
(* order, and the files that do not parse.                                 *)
AppendSuite ==
    /\ appender.at = "receiving"
    /\ \/ /\ suitesChan.items # <<>>
          /\ appender' = LET i == suitesChan.items[1]
                         IN IF Parses(files.artifacts[i]) THEN [appender EXCEPT !.suites = Append(@, i)]
                            ELSE [appender EXCEPT !.bad = @ \cup {i}]
          /\ suitesChan' = [suitesChan EXCEPT !.items = <<>>]
       \/ /\ suitesChan.items = <<>> /\ suitesChan.closed
          /\ appender' = [appender EXCEPT !.at = "done"]
          /\ UNCHANGED suitesChan
    /\ UNCHANGED <<suiteVars, lister, downloader, artifacts, readSuites>>

(* The report of a goroutine of the pipeline is received by readSuites or  *)
(* dropped because the context is done.                                    *)
ReportInner(to) == \/ readSuites = "waiting" /\ readSuites' = to
                   \/ InnerCancelled /\ UNCHANGED readSuites

(* A variant with a bug: the channel is closed before the error is sent.   *)
ListerFailsClosed ==
    /\ lister.at = "failed"
    /\ IF artifacts.closed THEN ReportInner("error") ELSE UNCHANGED readSuites
    /\ lister' = IF artifacts.closed THEN [lister EXCEPT !.at = "gone"] ELSE lister
    /\ artifacts' = [artifacts EXCEPT !.closed = TRUE]
    /\ UNCHANGED <<suiteVars, downloader, appender, suitesChan>>

ListerFails == /\ lister.at = "failed" /\ ReportInner("error")
               /\ lister' = [lister EXCEPT !.at = "gone"]
               /\ artifacts' = [artifacts EXCEPT !.closed = TRUE]
               /\ UNCHANGED <<suiteVars, downloader, appender, suitesChan>>

DownloaderFails == /\ downloader.at = "failed" /\ ReportInner("error")
                   /\ downloader' = [downloader EXCEPT !.at = "gone"]
                   /\ suitesChan' = [suitesChan EXCEPT !.closed = TRUE]
                   /\ UNCHANGED <<suiteVars, lister, appender, artifacts>>

AppenderDone == /\ appender.at = "done" /\ ReportInner("collected")
                /\ appender' = [appender EXCEPT !.at = "gone"]
                /\ UNCHANGED <<suiteVars, lister, downloader, artifacts, suitesChan>>

ReadSuitesCancelled == /\ readSuites = "waiting" /\ Cancelled
                       /\ readSuites' = "error"
                       /\ UNCHANGED <<suiteVars, lister, downloader, appender, artifacts, suitesChan>>

(* The fourth goroutine sorts the suites it got into good and bad ones     *)
(* and reports.                                                            *)
ReportSuites ==
    /\ readSuites \in {"error", "collected"}
    /\ result' = IF readSuites = "error" THEN result
                 ELSE [result EXCEPT !.suites = appender.suites, !.bad = appender.bad]
    /\ \/ Reports(IF readSuites = "error" THEN "error" ELSE "nil")
       \/ Cancelled /\ UNCHANGED <<work, ret>>
    /\ readSuites' = "gone"
    /\ UNCHANGED <<files, ctx, json, lister, downloader, appender, artifacts, suitesChan>>
-----------------------------------------------------------------------------
(* The update of the group times out or is told to stop.                   *)
Expire == /\ ctx = "live" /\ ret = "none"
          /\ ctx' = "done"
          /\ UNCHANGED <<files, json, lister, downloader, appender, artifacts, suitesChan,
                         readSuites, work, ret, result>>

Timeout == /\ ctx = "done" /\ ret = "none"
           /\ ret' = "timeout"
           /\ UNCHANGED <<files, ctx, json, lister, downloader, appender, artifacts, suitesChan,
                          readSuites, work, result>>

ReadSteps == \/ \E f \in JsonFiles : ReadJson(f)
             \/ List \/ Download \/ SendSuite \/ AppendSuite
             \/ ListerFails \/ DownloaderFails \/ AppenderDone
             \/ ReadSuitesCancelled \/ ReportSuites \/ Timeout

ReadNext == ReadSteps \/ Expire

ReadSpec == ReadInit /\ [][ReadNext]_buildVars
-----------------------------------------------------------------------------
(* readResult returned and every goroutine it started has ended.           *)
ReadOver == /\ ret # "none"
            /\ \A f \in JsonFiles : json[f] = "gone"
            /\ lister.at = "gone" /\ downloader.at = "gone" /\ appender.at = "gone"
            /\ readSuites = "gone"

JunitFiles == { i \in DOMAIN files.artifacts : IsJunit(files.artifacts[i]) }

(* A result that is returned before the context is done is whole: it holds *)
(* every junit file of the build in the order of the listing or names it   *)
(* as malformed, and the same for the metadata files; a listing that broke *)
(* off never passes for a complete one (readSuites reports an error before *)
(* the goroutine that met it closes its channel).                          *)
ResultWhole ==
    (ret = "result" /\ ctx = "live") =>
      /\ ~files.fails
      /\ Range(result.suites) \cup result.bad = JunitFiles
      /\ \A i, j \in DOMAIN result.suites : i < j => result.suites[i] < result.suites[j]
      /\ JsonFiles \ {"podinfo"} \subseteq result.filled \cup result.malformed
=============================================================================
