--------------------------- MODULE ReadersProofs ----------------------------
(***************************************************************************)
(* Proofs about the readers of builds: one call of readResult, whatever    *)
(* files the build has, and readColumns of any number of groups with a     *)
(* pool of any size.                                                       *)
(***************************************************************************)
EXTENDS ReadBuild, ReadColumns, TLAPS

(* What the pipeline of readSuites has where.                              *)
Taken == Range(appender.suites)
InSuites == Range(suitesChan.items)
InHand == IF downloader.at = "sending" THEN {downloader.item} ELSE {}
InArtifacts == Range(artifacts.items)
JunitIn(S) == { i \in S \cap DOMAIN files.artifacts : IsJunit(files.artifacts[i]) }
Before(S, T) == \A i \in S, j \in T : i < j
Increasing(s) == \A i, j \in DOMAIN s : i < j => s[i] < s[j]

Buffer(items) == items = <<>> \/ \E i \in Int : items = <<i>>

Rec(r, fields) == DOMAIN r = fields /\ r = [x \in fields |-> r[x]]

PipeTypes ==
    /\ Rec(lister, {"at", "next"}) /\ lister.next \in Nat \ {0}
    /\ Rec(artifacts, {"items", "closed"}) /\ Buffer(artifacts.items)
    /\ Rec(downloader, {"at", "item"}) /\ downloader.item \in Int
    /\ Rec(suitesChan, {"items", "closed"}) /\ Buffer(suitesChan.items)
    /\ Rec(appender, {"at", "suites", "bad"}) /\ appender.suites \in Seq(Int)

(* As long as nobody is told to stop, a goroutine of the pipeline only     *)
(* ends when the one before it has handed on everything.                   *)
PipeEnds ==
    /\ artifacts.closed => lister.at = "gone" /\ ListedAll
    /\ downloader.at \in {"receiving", "sending", "gone"}
    /\ downloader.at = "gone" => artifacts.closed /\ artifacts.items = <<>>
    /\ suitesChan.closed => downloader.at = "gone"
    /\ appender.at \in {"receiving", "done"}
    /\ appender.at = "done" => suitesChan.closed /\ suitesChan.items = <<>>

(* Nothing is lost on the way, and nothing overtakes.                      *)
PipeHolds ==
    /\ JunitIn(1 .. (lister.next - 1)) = Taken \cup appender.bad \cup InSuites \cup InHand \cup JunitIn(InArtifacts)
    /\ InArtifacts \subseteq DOMAIN files.artifacts

PipeOrder ==
    /\ Increasing(appender.suites)
    /\ Before(Taken, InSuites) /\ Before(Taken, InHand) /\ Before(Taken, InArtifacts)
    /\ Before(InSuites, InHand) /\ Before(InSuites, InArtifacts) /\ Before(InHand, InArtifacts)
    /\ Before(Taken, {lister.next}) /\ Before(InSuites, {lister.next})
    /\ Before(InHand, {lister.next}) /\ Before(InArtifacts, {lister.next})

Pipe == PipeEnds /\ PipeHolds /\ PipeOrder

Whole(suites, bad) == ~files.fails /\ Range(suites) \cup bad = JunitFiles /\ Increasing(suites)

BuildTypes ==
    /\ files \in Files /\ ctx \in {"live", "done"}
    /\ json \in [JsonFiles -> {"reading", "gone"}]
    /\ readSuites \in {"waiting", "error", "collected", "gone"}
    /\ work \in Int
    /\ Rec(result, {"malformed", "filled", "suites", "bad"})
    /\ PipeTypes

OneIf(p) == IF p THEN 1 ELSE 0

(* While readResult waits: it counts the goroutines that have not reported *)
(* yet, and those that have were fine.                                     *)
Counted == work = OneIf(json["podinfo"] = "reading") + OneIf(json["started"] = "reading")
                  + OneIf(json["finished"] = "reading") + OneIf(readSuites # "gone")

JsonFine == \A f \in JsonFiles \ {"podinfo"} : json[f] = "gone" => f \in result.filled \cup result.malformed

SuitesFine == /\ readSuites = "waiting" => Pipe
              /\ readSuites = "collected" => Whole(appender.suites, appender.bad) /\ appender.at = "gone"
              /\ readSuites = "gone" => Whole(result.suites, result.bad)

BuildInv ==
    /\ BuildTypes
    /\ ctx = "live" /\ ret = "none" => Counted /\ JsonFine /\ SuitesFine
    /\ ctx = "live" /\ ret = "result" =>
         /\ readSuites = "gone" /\ Whole(result.suites, result.bad)
         /\ JsonFiles \ {"podinfo"} \subseteq result.filled \cup result.malformed

(* What a channel holds. *)
LEMMA BufferRange == Range(<<>>) = {} /\ \A i : Range(<<i>>) = {i}
  BY DEF Range

(* Appending a larger number keeps a sequence increasing. *)
LEMMA AppendRange ==
  ASSUME NEW s \in Seq(Int), NEW i \in Int
  PROVE  /\ Append(s, i) \in Seq(Int) /\ Range(Append(s, i)) = Range(s) \cup {i}
         /\ Increasing(s) /\ Before(Range(s), {i}) => Increasing(Append(s, i))
<1>1. /\ Append(s, i) \in Seq(Int) /\ DOMAIN Append(s, i) = 1 .. (Len(s) + 1) /\ DOMAIN s = 1 .. Len(s)
      /\ Len(s) \in Nat /\ Append(s, i)[Len(s) + 1] = i
      /\ \A k \in 1 .. Len(s) : Append(s, i)[k] = s[k]
  OBVIOUS
<1>2. Range(Append(s, i)) = Range(s) \cup {i}
  BY <1>1 DEF Range
<1>3. ASSUME Increasing(s), Before(Range(s), {i}) PROVE Increasing(Append(s, i))
  <2>1. \A k \in 1 .. Len(s) : s[k] < i
    BY <1>1, <1>3 DEF Before, Range
  <2> QED BY <1>1, <1>3, <2>1 DEF Increasing
<1> QED BY <1>1, <1>2, <1>3

(* A step of one of the goroutines of the pipeline keeps the types. *)
LEMMA PipeTypesStep ==
  ASSUME BuildTypes, List \/ Download \/ SendSuite \/ AppendSuite
  PROVE  PipeTypes'
<1>1. CASE List
  BY <1>1 DEF List, BuildTypes, PipeTypes, Buffer, Rec
<1>2. CASE Download
  BY <1>2 DEF Download, BuildTypes, PipeTypes, Buffer, Rec
<1>3. CASE SendSuite
  BY <1>3 DEF SendSuite, BuildTypes, PipeTypes, Buffer, Rec
<1>4. CASE AppendSuite
  <2>1. CASE suitesChan.items # <<>>
    <3>1. PICK i \in Int : suitesChan.items = <<i>>
      BY <2>1 DEF BuildTypes, PipeTypes, Buffer, Rec
    <3>2. Append(appender.suites, i) \in Seq(Int)
      BY AppendRange DEF BuildTypes, PipeTypes
    <3>3. suitesChan' = [suitesChan EXCEPT !.items = <<>>] /\ UNCHANGED <<lister, artifacts, downloader>>
      BY <1>4, <2>1 DEF AppendSuite
    <3>4. \/ appender' = [appender EXCEPT !.suites = Append(@, i)]
          \/ appender' = [appender EXCEPT !.bad = @ \cup {i}]
      BY <1>4, <2>1, <3>1 DEF AppendSuite
    <3>5. Rec(appender', {"at", "suites", "bad"}) /\ appender'.suites \in Seq(Int)
      BY <3>2, <3>4 DEF BuildTypes, PipeTypes, Rec
    <3> QED BY <3>3, <3>5 DEF BuildTypes, PipeTypes, Buffer, Rec
  <2>2. CASE suitesChan.items = <<>>
    BY <1>4, <2>2 DEF AppendSuite, BuildTypes, PipeTypes, Buffer, Rec
  <2> QED BY <2>1, <2>2
<1> QED BY <1>1, <1>2, <1>3, <1>4

(* What is listed next is junit or not. *)
LEMMA JunitNext ==
  ASSUME NEW n \in Nat \ {0}
  PROVE  JunitIn(1 .. n) = JunitIn(1 .. (n - 1)) \cup JunitIn({n})
<1>1. 1 .. n = (1 .. (n - 1)) \cup {n}
  OBVIOUS
<1> QED BY <1>1 DEF JunitIn

(* The lister, as long as nobody is told to stop. *)
LEMMA ListStep ==
  ASSUME BuildTypes, Pipe, ~InnerCancelled, List
  PROVE  Pipe'
<1> USE DEF BuildTypes, PipeTypes
<1>0. UNCHANGED <<files, downloader, appender, suitesChan>> /\ lister.at = "listing"
  BY DEF List, suiteVars
<1>1. CASE ListedAll
  <2>1. lister' = [lister EXCEPT !.at = "gone"] /\ artifacts' = [artifacts EXCEPT !.closed = TRUE]
    BY <1>1 DEF List, ListingFails, ListedAll
  <2>2. lister'.at = "gone" /\ lister'.next = lister.next /\ artifacts'.items = artifacts.items
    BY <2>1 DEF Rec
  <2>3. ListedAll'
    BY <1>0, <1>1, <2>2 DEF ListedAll
  <2>4. PipeEnds'
    BY <1>0, <2>1, <2>2, <2>3 DEF Pipe, PipeEnds, Rec
  <2> QED BY <1>0, <2>2, <2>4 DEF Pipe, PipeHolds, PipeOrder, JunitIn, Taken, InSuites, InHand, InArtifacts
<1>2. CASE ListingFails
  <2>1. lister' = [lister EXCEPT !.at = "failed"] /\ artifacts' = artifacts
    BY <1>2 DEF List, ListingFails, ListedAll
  <2>2. lister'.next = lister.next
    BY <2>1 DEF Rec
  <2>3. PipeEnds'
    BY <1>0, <2>1, <2>2 DEF Pipe, PipeEnds
  <2> QED BY <1>0, <2>1, <2>2, <2>3 DEF Pipe, PipeHolds, PipeOrder, JunitIn, Taken, InSuites, InHand, InArtifacts
<1>3. CASE ~ListedAll /\ ~ListingFails
  <2> DEFINE n == lister.next
  <2>1. /\ artifacts.items = <<>>
        /\ artifacts' = [artifacts EXCEPT !.items = <<n>>] /\ lister' = [lister EXCEPT !.next = @ + 1]
    BY <1>3 DEF List
  <2>2. /\ lister'.at = "listing" /\ lister'.next = n + 1
        /\ artifacts'.items = <<n>> /\ artifacts'.closed = artifacts.closed
    BY <1>0, <2>1 DEF Rec
  <2>3. InArtifacts = {} /\ InArtifacts' = {n} /\ UNCHANGED <<Taken, InSuites, InHand>>
    BY <1>0, <2>1, <2>2, BufferRange DEF InArtifacts, Taken, InSuites, InHand
  <2>4. PipeEnds'
    BY <1>0, <2>2 DEF Pipe, PipeEnds
  <2>5. /\ JunitIn(1 .. (lister.next - 1))' = JunitIn(1 .. n)
        /\ JunitIn(InArtifacts)' = JunitIn({n}) /\ JunitIn(InArtifacts) = {}
    BY <1>0, <2>2, <2>3 DEF JunitIn
  <2>6. PipeHolds'
    <3>1. /\ files.artifacts \in Seq({"junit", "bad", "other"})
          /\ files.listed \in 0 .. Len(files.artifacts)
      BY FilesAssumption
    <3>2. n \in DOMAIN files.artifacts
      BY <1>3, <3>1 DEF ListedAll, ListingFails
    <3> QED BY <1>0, <2>3, <2>5, <3>2, JunitNext, SMTT(30) DEF Pipe, PipeHolds
  <2>7. PipeOrder'
    <3>1. /\ Taken \subseteq Int /\ InSuites \subseteq Int /\ InHand \subseteq Int
      BY BufferRange DEF Taken, InSuites, InHand, Range, Buffer
    <3> QED BY <1>0, <2>2, <2>3, <3>1 DEF Pipe, PipeOrder, Before
  <2> QED BY <2>4, <2>6, <2>7 DEF Pipe
<1> QED BY <1>1, <1>2, <1>3

(* The downloader takes an artifact or ends after the last one. *)
LEMMA DownloadStep ==
  ASSUME BuildTypes, Pipe, ~InnerCancelled, Download
  PROVE  Pipe'
<1> USE DEF BuildTypes, PipeTypes
<1>0. UNCHANGED <<files, lister, appender>> /\ downloader.at = "receiving"
  BY DEF Download, suiteVars
<1>1. InHand = {} /\ UNCHANGED <<Taken, ListedAll>>
  BY <1>0 DEF InHand, Taken, ListedAll
<1>2. CASE artifacts.items # <<>>
  <2>1. PICK n \in Int : artifacts.items = <<n>>
    BY <1>2 DEF Buffer
  <2>2. /\ artifacts' = [artifacts EXCEPT !.items = <<>>] /\ suitesChan' = suitesChan
        /\ downloader' = IF IsJunit(files.artifacts[n]) THEN [at |-> "sending", item |-> n] ELSE downloader
    BY <1>2, <2>1 DEF Download, InnerCancelled
  <2>3. artifacts'.items = <<>> /\ artifacts'.closed = artifacts.closed
    BY <2>2 DEF Rec
  <2>4. InArtifacts = {n} /\ InArtifacts' = {} /\ InSuites' = InSuites
    BY <2>1, <2>2, <2>3, BufferRange DEF InArtifacts, InSuites
  <2>5. n \in DOMAIN files.artifacts
    BY <2>4 DEF Pipe, PipeHolds
  <2>6. InHand' = JunitIn({n})
    BY <1>0, <1>1, <2>2, <2>5 DEF InHand, JunitIn
  <2>7. PipeEnds'
    BY <1>0, <1>1, <2>2, <2>3 DEF Pipe, PipeEnds
  <2>8. PipeHolds'
    BY <1>0, <1>1, <2>4, <2>6 DEF Pipe, PipeHolds, JunitIn
  <2>9. PipeOrder'
    BY <1>0, <1>1, <2>4, <2>6 DEF Pipe, PipeOrder, Before, JunitIn
  <2> QED BY <2>7, <2>8, <2>9 DEF Pipe
<1>3. CASE artifacts.items = <<>>
  <2>1. /\ artifacts.closed /\ downloader' = [downloader EXCEPT !.at = "gone"]
        /\ suitesChan' = [suitesChan EXCEPT !.closed = TRUE] /\ artifacts' = artifacts
    BY <1>3 DEF Download
  <2>2. downloader'.at = "gone" /\ suitesChan'.items = suitesChan.items
    BY <2>1 DEF Rec
  <2>3. UNCHANGED <<InArtifacts, InSuites, InHand>>
    BY <1>1, <2>1, <2>2 DEF InArtifacts, InSuites, InHand
  <2>4. PipeEnds'
    BY <1>0, <1>1, <1>3, <2>1, <2>2 DEF Pipe, PipeEnds
  <2> QED BY <1>0, <1>1, <2>3, <2>4 DEF Pipe, PipeHolds, PipeOrder, JunitIn, Before
<1> QED BY <1>2, <1>3

(* It hands a suite to the collector. *)
LEMMA SendStep ==
  ASSUME BuildTypes, Pipe, ~InnerCancelled, SendSuite
  PROVE  Pipe'
<1> USE DEF BuildTypes, PipeTypes
<1>0. UNCHANGED <<files, lister, appender, artifacts>> /\ downloader.at = "sending" /\ suitesChan.items = <<>>
      /\ suitesChan' = [suitesChan EXCEPT !.items = <<downloader.item>>]
      /\ downloader' = [at |-> "receiving", item |-> 0]
  BY DEF SendSuite, suiteVars
<1>1. suitesChan'.items = <<downloader.item>> /\ suitesChan'.closed = suitesChan.closed
  BY <1>0 DEF Rec
<1>2. UNCHANGED <<Taken, InArtifacts, ListedAll>> /\ InSuites = {} /\ InSuites' = InHand /\ InHand' = {}
  BY <1>0, <1>1, BufferRange DEF Taken, InArtifacts, InSuites, InHand, ListedAll
<1>3. PipeEnds'
  BY <1>0, <1>1, <1>2 DEF Pipe, PipeEnds
<1> QED BY <1>0, <1>2, <1>3 DEF Pipe, PipeHolds, PipeOrder, Before, JunitIn

(* The collector takes a suite, or notices the end. *)
LEMMA AppendStep ==
  ASSUME BuildTypes, Pipe, AppendSuite
  PROVE  Pipe'
<1> USE DEF BuildTypes, PipeTypes
<1>0. UNCHANGED <<files, lister, downloader, artifacts>> /\ appender.at = "receiving"
  BY DEF AppendSuite, suiteVars
<1>1. UNCHANGED <<InHand, InArtifacts, ListedAll>>
  BY <1>0 DEF InHand, InArtifacts, ListedAll
<1>2. CASE suitesChan.items # <<>>
  <2>1. PICK i \in Int : suitesChan.items = <<i>>
    BY <1>2 DEF Buffer
  <2>2. suitesChan' = [suitesChan EXCEPT !.items = <<>>]
    BY <1>2 DEF AppendSuite
  <2>3. \/ appender' = [appender EXCEPT !.suites = Append(@, i)]
        \/ appender' = [appender EXCEPT !.bad = @ \cup {i}]
    BY <1>2, <2>1 DEF AppendSuite
  <2>4. suitesChan'.items = <<>> /\ suitesChan'.closed = suitesChan.closed /\ appender'.at = appender.at
    BY <2>2, <2>3 DEF Rec
  <2>5. InSuites = {i} /\ InSuites' = {}
    BY <2>1, <2>4, BufferRange DEF InSuites
  <2>6. \/ appender'.suites = Append(appender.suites, i) /\ appender'.bad = appender.bad
        \/ appender'.suites = appender.suites /\ appender'.bad = appender.bad \cup {i}
    BY <2>3 DEF Rec
  <2>7. PipeEnds'
    BY <1>0, <1>1, <2>4 DEF Pipe, PipeEnds
  <2>8. \/ Taken' = Taken \cup {i} /\ appender'.bad = appender.bad
        \/ Taken' = Taken /\ appender'.bad = appender.bad \cup {i}
    BY <2>6, AppendRange DEF Taken
  <2>9. PipeHolds'
    BY <1>0, <1>1, <2>5, <2>8 DEF Pipe, PipeHolds, JunitIn
  <2>10. Increasing(appender'.suites)
    BY <2>5, <2>6, AppendRange DEF Pipe, PipeOrder, Taken
  <2>11. PipeOrder'
    BY <1>0, <1>1, <2>5, <2>8, <2>10 DEF Pipe, PipeOrder, Before
  <2> QED BY <2>7, <2>9, <2>11 DEF Pipe
<1>3. CASE suitesChan.items = <<>>
  <2>1. suitesChan.closed /\ appender' = [appender EXCEPT !.at = "done"] /\ suitesChan' = suitesChan
    BY <1>3 DEF AppendSuite
  <2>2. appender'.at = "done" /\ appender'.suites = appender.suites /\ appender'.bad = appender.bad
    BY <2>1 DEF Rec
  <2>3. UNCHANGED <<Taken, InSuites>>
    BY <2>1, <2>2 DEF Taken, InSuites
  <2>4. PipeEnds'
    BY <1>0, <1>1, <1>3, <2>1, <2>2 DEF Pipe, PipeEnds
  <2> QED BY <1>0, <1>1, <2>2, <2>3, <2>4 DEF Pipe, PipeHolds, PipeOrder, JunitIn
<1> QED BY <1>2, <1>3

(* When the collector is done, it has every junit file of the build. *)
LEMMA PipeWhole ==
  ASSUME BuildTypes, Pipe, appender.at = "done"
  PROVE  Whole(appender.suites, appender.bad)
<1>1. /\ ListedAll /\ InSuites = {} /\ InHand = {} /\ InArtifacts = {}
  BY BufferRange DEF Pipe, PipeEnds, InSuites, InHand, InArtifacts
<1>2. files.artifacts \in Seq({"junit", "bad", "other"})
  BY FilesAssumption DEF BuildTypes
<1>3. DOMAIN files.artifacts = 1 .. Len(files.artifacts) /\ Len(files.artifacts) \in Nat
  BY <1>2
<1>4. JunitIn(1 .. (lister.next - 1)) = JunitFiles
  BY <1>1, <1>3 DEF ListedAll, JunitIn, JunitFiles, BuildTypes, PipeTypes
<1>5. JunitIn(InArtifacts) = {}
  BY <1>1 DEF JunitIn
<1> QED BY <1>1, <1>4, <1>5 DEF Pipe, PipeHolds, PipeOrder, Whole, Taken, ListedAll

(* A file that was read, and the report of that. *)
LEMMA JsonStep ==
  ASSUME BuildInv, NEW f \in JsonFiles, ReadJson(f)
  PROVE  BuildInv'
<1> USE DEF BuildInv
<1>1. /\ json[f] = "reading" /\ json' = [json EXCEPT ![f] = "gone"]
      /\ UNCHANGED <<files, ctx, lister, downloader, appender, artifacts, suitesChan, readSuites>>
  BY DEF ReadJson
<1>2. PICK out \in JsonOutcomes(f) :
        /\ result' = [result EXCEPT !.malformed = IF out = "malformed" THEN @ \cup {f} ELSE @,
                                    !.filled = IF out = "filled" THEN @ \cup {f} ELSE @]
        /\ \/ Reports(IF out \in {"malformed", "filled"} THEN "nil" ELSE out)
           \/ Cancelled /\ UNCHANGED <<work, ret>>
  BY DEF ReadJson
<1>3. /\ out \in {"malformed", "filled", "error", "noStart", "ancient", "nil"}
      /\ out = "nil" => f = "podinfo"
  BY DEF JsonOutcomes
<1>4. /\ Rec(result', {"malformed", "filled", "suites", "bad"})
      /\ result'.suites = result.suites /\ result'.bad = result.bad
      /\ result.malformed \subseteq result'.malformed /\ result.filled \subseteq result'.filled
      /\ out \in {"malformed", "filled"} => f \in result'.filled \cup result'.malformed
  BY <1>2 DEF BuildTypes, Rec
<1>5. json' \in [JsonFiles -> {"reading", "gone"}] /\ work' \in Int
  BY <1>1, <1>2 DEF BuildTypes, Reports
<1>6. BuildTypes'
  BY <1>1, <1>4, <1>5 DEF BuildTypes, PipeTypes
<1>7. UNCHANGED <<Pipe, Whole(result.suites, result.bad), Whole(appender.suites, appender.bad)>>
  BY <1>1, <1>4 DEF Pipe, PipeEnds, PipeHolds, PipeOrder, ListedAll, JunitIn, Taken, InSuites, InHand,
                    InArtifacts, Whole, JunitFiles
<1>8. CASE ctx = "live" /\ ret = "none"
  <2>1. /\ Counted /\ JsonFine /\ SuitesFine /\ work' = work - 1
        /\ ret' = IF out \in {"malformed", "filled", "nil"} THEN IF work = 1 THEN "result" ELSE "none" ELSE out
    BY <1>2, <1>3, <1>8 DEF Reports, Cancelled
  <2>2. Counted'
    BY <1>1, <2>1 DEF Counted, OneIf, BuildTypes, JsonFiles
  <2>3. SuitesFine'
    BY <1>1, <1>7, <2>1 DEF SuitesFine
  <2>4. out \in {"malformed", "filled", "nil"} => JsonFine'
    BY <1>1, <1>3, <1>4, <2>1 DEF JsonFine, BuildTypes
  <2>5. work = 1 => \A g \in JsonFiles : json'[g] = "gone"
    BY <1>1, <2>1 DEF Counted, OneIf, BuildTypes, JsonFiles
  <2>6. work = 1 => readSuites = "gone"
    BY <1>1, <2>1 DEF Counted, OneIf, BuildTypes, JsonFiles
  <2> QED BY <1>1, <1>3, <1>6, <2>1, <2>2, <2>3, <2>4, <2>5, <2>6 DEF JsonFine, SuitesFine
<1>9. CASE ctx = "live" /\ ret # "none"
  <2>1. ret' = ret
    BY <1>2, <1>9 DEF Reports
  <2> QED BY <1>1, <1>4, <1>6, <1>7, <1>9, <2>1
<1> QED BY <1>1, <1>6, <1>8, <1>9 DEF BuildTypes

(* The pipeline and what it reports to readSuites. *)
LEMMA PipelineStep ==
  ASSUME BuildInv,
         \/ List \/ Download \/ SendSuite \/ AppendSuite
         \/ ListerFails \/ DownloaderFails \/ AppenderDone \/ ReadSuitesCancelled
  PROVE  BuildInv'
<1> USE DEF BuildInv
<1>0. UNCHANGED <<files, ctx, json, work, ret, result>>
  BY DEF List, Download, SendSuite, AppendSuite, ListerFails, DownloaderFails, AppenderDone,
         ReadSuitesCancelled, suiteVars
<1>1. /\ JsonFine' = JsonFine /\ (readSuites' # "gone" /\ readSuites # "gone" => Counted' = Counted)
      /\ Whole(result.suites, result.bad)' = Whole(result.suites, result.bad)
  BY <1>0 DEF JsonFine, Counted, OneIf, Whole, JunitFiles
<1>2. CASE List \/ Download \/ SendSuite \/ AppendSuite
  <2>1. UNCHANGED readSuites
    BY <1>2 DEF List, Download, SendSuite, AppendSuite
  <2>2. BuildTypes'
    BY <1>0, <1>2, <2>1, PipeTypesStep DEF BuildTypes
  <2>3. Counted' = Counted
    BY <1>0, <2>1 DEF Counted
  <2>4. ASSUME ctx = "live", ret = "none", readSuites = "waiting" PROVE Pipe'
    <3>1. Pipe /\ ~InnerCancelled
      BY <2>4 DEF SuitesFine, InnerCancelled, Cancelled
    <3> QED BY <1>2, <3>1, ListStep, DownloadStep, SendStep, AppendStep
  <2>5. ASSUME appender.at = "gone" PROVE Whole(appender.suites, appender.bad)' = Whole(appender.suites, appender.bad)
                                          /\ appender' = appender
    BY <1>0, <1>2, <2>5 DEF List, Download, SendSuite, AppendSuite, Whole, JunitFiles
  <2>6. ctx = "live" /\ ret = "none" => SuitesFine'
    BY <1>1, <2>1, <2>4, <2>5 DEF SuitesFine
  <2> QED BY <1>0, <1>1, <2>1, <2>2, <2>3, <2>6
<1>3. CASE ListerFails \/ DownloaderFails \/ AppenderDone \/ ReadSuitesCancelled
  <2>1. PipeTypes'
    BY <1>3 DEF ListerFails, DownloaderFails, AppenderDone, ReadSuitesCancelled, BuildTypes, PipeTypes, Rec, Buffer
  <2>2. /\ readSuites' = readSuites \/ (readSuites = "waiting" /\ readSuites' \in {"error", "collected"})
        /\ InnerCancelled \/ readSuites' \in {"error", "collected"}
    BY <1>3 DEF ListerFails, DownloaderFails, AppenderDone, ReadSuitesCancelled, ReportInner, InnerCancelled
  <2>3. BuildTypes'
    BY <1>0, <2>1, <2>2 DEF BuildTypes
  <2>4. readSuites = "gone" => Counted' = Counted
    BY <1>0, <2>2 DEF Counted
  <2>5. ASSUME ctx = "live", ret = "none" PROVE SuitesFine'
    <3>1. CASE readSuites = "waiting"
      <4>1. Pipe /\ ~InnerCancelled
        BY <2>5, <3>1 DEF SuitesFine, InnerCancelled, Cancelled
      <4>2. CASE readSuites' = "error"
        BY <4>2 DEF SuitesFine
      <4>3. CASE readSuites' = "collected"
        <5>1. AppenderDone
          BY <1>3, <3>1, <4>1, <4>3 DEF ListerFails, DownloaderFails, ReadSuitesCancelled, ReportInner
        <5>2. /\ appender.at = "done" /\ appender'.at = "gone"
              /\ appender'.suites = appender.suites /\ appender'.bad = appender.bad
          BY <5>1 DEF AppenderDone, BuildTypes, PipeTypes, Rec
        <5>3. Whole(appender.suites, appender.bad)
          BY <4>1, <5>2, PipeWhole
        <5>4. Whole(appender.suites, appender.bad)'
          BY <1>0, <5>2, <5>3 DEF Whole, JunitFiles
        <5> QED BY <4>3, <5>2, <5>4 DEF SuitesFine
      <4> QED BY <2>2, <4>1, <4>2, <4>3
    <3>2. CASE readSuites # "waiting"
      <4>1. readSuites' = readSuites /\ (appender.at = "gone" => appender' = appender)
        BY <1>3, <2>2, <3>2 DEF ListerFails, DownloaderFails, AppenderDone, ReadSuitesCancelled
      <4>2. appender.at = "gone" => Whole(appender.suites, appender.bad)' = Whole(appender.suites, appender.bad)
        BY <1>0, <4>1 DEF Whole, JunitFiles
      <4> QED BY <1>1, <2>5, <3>2, <4>1, <4>2 DEF SuitesFine
    <3> QED BY <3>1, <3>2
  <2> QED BY <1>0, <1>1, <2>2, <2>3, <2>4, <2>5
<1> QED BY <1>2, <1>3

(* The fourth report. *)
LEMMA SuitesStep ==
  ASSUME BuildInv, ReportSuites
  PROVE  BuildInv'
<1> USE DEF BuildInv
<1>1. /\ readSuites \in {"error", "collected"} /\ readSuites' = "gone"
      /\ UNCHANGED <<files, ctx, json, lister, downloader, appender, artifacts, suitesChan>>
      /\ \/ Reports(IF readSuites = "error" THEN "error" ELSE "nil")
         \/ Cancelled /\ UNCHANGED <<work, ret>>
  BY DEF ReportSuites
<1>2. /\ Rec(result', {"malformed", "filled", "suites", "bad"})
      /\ result'.malformed = result.malformed /\ result'.filled = result.filled
      /\ readSuites = "collected" => result'.suites = appender.suites /\ result'.bad = appender.bad
  BY DEF ReportSuites, BuildTypes, Rec
<1>3. BuildTypes'
  BY <1>1, <1>2 DEF BuildTypes, PipeTypes, Reports
<1>4. CASE ctx = "live" /\ ret = "none"
  <2>1. /\ Counted /\ JsonFine /\ SuitesFine /\ work' = work - 1
        /\ ret' = IF readSuites = "error" THEN "error" ELSE IF work = 1 THEN "result" ELSE "none"
    BY <1>1, <1>4 DEF Reports, Cancelled
  <2>2. Counted'
    BY <1>1, <2>1 DEF Counted, OneIf, BuildTypes, JsonFiles
  <2>3. JsonFine'
    BY <1>1, <1>2, <2>1 DEF JsonFine
  <2>4. readSuites = "collected" => Whole(result.suites, result.bad)'
    BY <1>1, <1>2, <2>1 DEF SuitesFine, Whole, JunitFiles
  <2>5. work = 1 => \A g \in JsonFiles : json[g] = "gone"
    BY <1>1, <2>1 DEF Counted, OneIf, BuildTypes, JsonFiles
  <2> QED BY <1>1, <1>3, <2>1, <2>2, <2>3, <2>4, <2>5 DEF JsonFine, SuitesFine
<1>5. CASE ctx = "live" /\ ret # "none"
  BY <1>1, <1>3, <1>5 DEF Reports
<1> QED BY <1>1, <1>3, <1>4, <1>5 DEF BuildTypes

(* readResult returns nothing before its context is done but what is whole:*)
(* every junit file of the build is there, in the order of the listing, or *)
(* named as malformed, and the same for the metadata; a listing or a       *)
(* download that broke off does not pass for the end of the files.         *)
THEOREM ResultsWhole == ReadSpec => []ResultWhole
<1>1. ReadInit => BuildInv
  <2> SUFFICES ASSUME ReadInit PROVE BuildInv
    OBVIOUS
  <2> USE DEF ReadInit, Open
  <2>1. BuildTypes
    BY DEF BuildTypes, PipeTypes, Buffer, Rec
  <2>2. Counted /\ JsonFine
    BY DEF Counted, OneIf, JsonFine, JsonFiles
  <2>3. /\ Taken = {} /\ InSuites = {} /\ InHand = {} /\ InArtifacts = {} /\ appender.bad = {}
        /\ lister.next = 1
    BY BufferRange DEF Taken, InSuites, InHand, InArtifacts
  <2>4. PipeHolds
    BY <2>3 DEF PipeHolds, JunitIn
  <2>5. PipeOrder
    BY <2>3 DEF PipeOrder, Before, Increasing
  <2>6. PipeEnds
    BY DEF PipeEnds
  <2> QED BY <2>1, <2>2, <2>4, <2>5, <2>6 DEF BuildInv, SuitesFine, Pipe
<1>2. BuildInv /\ [ReadNext]_buildVars => BuildInv'
  <2> SUFFICES ASSUME BuildInv, [ReadNext]_buildVars PROVE BuildInv'
    OBVIOUS
  <2>1. CASE Expire \/ Timeout
    BY <2>1 DEF Expire, Timeout, BuildInv, BuildTypes, PipeTypes
  <2>2. CASE UNCHANGED buildVars
    BY <2>2 DEF buildVars, BuildInv, BuildTypes, PipeTypes, Counted, JsonFine, SuitesFine, Pipe, PipeEnds,
                PipeHolds, PipeOrder, ListedAll, JunitIn, Taken, InSuites, InHand, InArtifacts, Whole, JunitFiles
  <2> QED BY <2>1, <2>2, JsonStep, PipelineStep, SuitesStep DEF ReadNext, ReadSteps
<1>3. BuildInv => ResultWhole
  BY DEF BuildInv, ResultWhole, Whole, Increasing
<1> QED BY <1>1, <1>2, <1>3, PTL DEF ReadSpec

-----------------------------------------------------------------------------
(* readColumns.  The responder has counted the builds up to its own as     *)
(* good or as failures since the last good one, so that the place it gives *)
(* to the next column is after all others; and the sender is one build     *)
(* ahead of it until it is through or its context is done.                 *)
Sender(g) ==
    /\ Rec(sender[g], {"at", "b"}) /\ sender[g].b \in 1 .. NumBuilds[g]
    /\ sender[g].at \in {"locking", "asking", "sending", "closed", "returned"}

Responder(g) ==
    /\ Rec(responder[g], {"at", "b", "failures", "good"})
    /\ responder[g].at \in {"receiving", "waiting", "delivering", "done"}
    /\ responder[g].b \in Nat /\ responder[g].failures \in Nat /\ responder[g].good \in Nat

ColumnTypes ==
    /\ sender = [g \in Groups |-> sender[g]] /\ \A g \in Groups : Sender(g)
    /\ responder = [g \in Groups |-> responder[g]] /\ \A g \in Groups : Responder(g)
    /\ cols = [g \in Groups |-> cols[g]]
    /\ \A g \in Groups : /\ DOMAIN cols[g] = 1 .. Len(cols[g]) /\ Len(cols[g]) \in Nat
                         /\ cols[g] \in Seq([build : Nat, when : Nat, extra : Nat])

(* The builds that the responder has counted, and the columns it has made. *)
Counting(r, c) ==
    /\ r.at = "waiting" => r.good + r.failures = r.b - 1 /\ Len(c) = r.b - 1
    /\ r.at = "delivering" => r.good + r.failures = r.b /\ Len(c) = r.b - 1
    /\ r.at = "receiving" => r.good + r.failures = r.b /\ Len(c) = r.b

(* Where the next column goes. *)
Place(r) == Started(r.good) + r.failures

Placed(r, c) ==
    /\ \A i \in DOMAIN c : c[i].build = i /\ c[i].extra <= i /\ c[i].when <= Started(i)
    /\ \A i, j \in DOMAIN c : i < j => c[i].when < c[j].when
    /\ r.at \in {"receiving", "waiting"} => \A i \in DOMAIN c : c[i].when <= Place(r)
    /\ r.at = "delivering" => \A i \in DOMAIN c : c[i].when < Place(r)

(* What is left to send. *)
Ahead(g) ==
    LET s == sender[g]
        r == responder[g]
    IN /\ s.at = "locking" => s.b = 1
       /\ s.at \in {"locking", "asking", "sending"} => s.b = r.b + 1
       /\ s.at \in {"closed", "returned"} => g \in expired \/ (s.b = r.b /\ r.b = NumBuilds[g])
       /\ r.at = "done" => g \in expired \/ (s.at \in {"closed", "returned"} /\ Len(cols[g]) = r.b)
       /\ s.at = "returned" => r.at = "done"

ColumnsInv == /\ ColumnTypes
              /\ \A g \in Groups : Counting(responder[g], cols[g]) /\ Placed(responder[g], cols[g]) /\ Ahead(g)

(* A step of one group leaves the others alone. *)
LEMMA OtherGroups ==
  ASSUME ColumnsInv, NEW g \in Groups, expired \subseteq expired',
         sender' = [h \in Groups |-> sender'[h]], responder' = [h \in Groups |-> responder'[h]],
         cols' = [h \in Groups |-> cols'[h]],
         \A h \in Groups : h # g => /\ sender'[h] = sender[h] /\ responder'[h] = responder[h]
                                    /\ cols'[h] = cols[h],
         Sender(g)', Responder(g)', cols'[g] \in Seq([build : Nat, when : Nat, extra : Nat]),
         Counting(responder'[g], cols'[g]), Placed(responder'[g], cols'[g]), Ahead(g)'
  PROVE  ColumnsInv'
<1>1. DOMAIN cols'[g] = 1 .. Len(cols'[g]) /\ Len(cols'[g]) \in Nat
  OBVIOUS
<1>2. ColumnTypes'
  BY <1>1 DEF ColumnsInv, ColumnTypes, Sender, Responder
<1>3. \A h \in Groups : h # g => Ahead(h)'
  BY DEF ColumnsInv, Ahead
<1> QED BY <1>2, <1>3 DEF ColumnsInv

(* The sender's steps: it locks the pool, asks for a build and hands it on.*)
LEMMA SenderStep ==
  ASSUME ColumnsInv, NEW g \in Groups, Lock(g) \/ Ask(g) \/ Send(g) \/ ReturnColumns(g)
  PROVE  ColumnsInv'
<1> USE DEF ColumnsInv, ColumnTypes
<1>1. /\ Rec(sender[g], {"at", "b"}) /\ NumBuilds[g] \in Nat \ {0} /\ Sender(g) /\ Responder(g)
  BY NumBuildsAssumption DEF Sender
<1>2. ASSUME NEW at \in {"asking", "sending", "closed", "returned"}, NEW b \in 1 .. NumBuilds[g], SenderAt(g, at, b),
             UNCHANGED <<responder, cols, expired>>,
             at \in {"asking", "sending"} => b = responder[g].b + 1,
             at \in {"closed", "returned"} => g \in expired \/ (b = responder[g].b /\ b = NumBuilds[g]),
             responder[g].at = "done" => g \in expired \/ (at \in {"closed", "returned"} /\ Len(cols[g]) = responder[g].b),
             at = "returned" => responder[g].at = "done"
      PROVE  ColumnsInv'
  <2>1. /\ sender' = [h \in Groups |-> sender'[h]] /\ sender'[g].at = at /\ sender'[g].b = b
        /\ \A h \in Groups : h # g => sender'[h] = sender[h]
        /\ Rec(sender'[g], {"at", "b"})
    BY <1>2 DEF SenderAt, Rec
  <2>2. Sender(g)' /\ Responder(g)'
    BY <1>1, <1>2, <2>1 DEF Sender, Responder
  <2>3. Ahead(g)'
    BY <1>2, <2>1 DEF Ahead
  <2> QED BY <1>2, <2>1, <2>2, <2>3, OtherGroups
<1>3. CASE Lock(g)
  BY <1>1, <1>2, <1>3 DEF Lock, Ahead, Sender
<1>4. CASE Ask(g)
  <2>1. CASE SenderAt(g, "sending", sender[g].b)
    BY <1>1, <1>2, <1>4, <2>1 DEF Ask, Ahead, Sender
  <2>2. CASE UNCHANGED sender
    BY <1>4, <2>2 DEF Ask, Sender, Responder, Ahead
  <2> QED BY <1>4, <2>1, <2>2 DEF Ask
<1>5. CASE ReturnColumns(g)
  BY <1>1, <1>2, <1>5 DEF ReturnColumns, Ahead, Sender
<1>6. CASE Send(g)
  <2>1. CASE g \in expired /\ UNCHANGED responder /\ SenderAt(g, "closed", sender[g].b)
    BY <1>1, <1>2, <1>6, <2>1 DEF Send, Sender
  <2>2. CASE responder[g].at = "receiving"
             /\ responder' = [responder EXCEPT ![g].at = "waiting", ![g].b = sender[g].b]
             /\ IF sender[g].b < NumBuilds[g] THEN SenderAt(g, "asking", sender[g].b + 1)
                                              ELSE SenderAt(g, "closed", sender[g].b)
    <3>1. /\ responder' = [h \in Groups |-> responder'[h]]
          /\ \A h \in Groups : h # g => responder'[h] = responder[h]
          /\ Rec(responder'[g], {"at", "b", "failures", "good"})
          /\ responder'[g].at = "waiting" /\ responder'[g].b = sender[g].b
          /\ responder'[g].failures = responder[g].failures /\ responder'[g].good = responder[g].good
      BY <1>1, <2>2 DEF Responder, Rec
    <3>2. /\ sender' = [h \in Groups |-> sender'[h]]
          /\ \A h \in Groups : h # g => sender'[h] = sender[h]
          /\ Rec(sender'[g], {"at", "b"})
          /\ \/ sender[g].b < NumBuilds[g] /\ sender'[g].at = "asking" /\ sender'[g].b = sender[g].b + 1
             \/ sender[g].b >= NumBuilds[g] /\ sender'[g].at = "closed" /\ sender'[g].b = sender[g].b
      BY <1>1, <2>2 DEF SenderAt, Sender, Rec
    <3>3. UNCHANGED <<cols, expired>> /\ sender[g].at = "sending"
      BY <1>6 DEF Send
    <3>4. Sender(g)' /\ Responder(g)'
      BY <1>1, <3>1, <3>2 DEF Sender, Responder
    <3>5. sender[g].b = responder[g].b + 1
      BY <3>3 DEF Ahead
    <3>6. Counting(responder'[g], cols'[g])
      BY <1>1, <2>2, <3>1, <3>3, <3>5 DEF Counting, Responder
    <3>7. Placed(responder'[g], cols'[g])
      BY <2>2, <3>1, <3>3 DEF Placed, Place
    <3>8. Ahead(g)'
      BY <1>1, <3>1, <3>2, <3>3, <3>5 DEF Ahead, Sender
    <3>9. cols'[g] \in Seq([build : Nat, when : Nat, extra : Nat])
      BY <3>3
    <3> QED BY <3>1, <3>2, <3>3, <3>4, <3>6, <3>7, <3>8, <3>9, OtherGroups
  <2> QED BY <1>6, <2>1, <2>2 DEF Send
<1> QED BY <1>3, <1>4, <1>5, <1>6

(* The columns of a group are columns. *)
LEMMA SeqElements ==
  ASSUME NEW S, NEW s \in Seq(S)
  PROVE  DOMAIN s = 1 .. Len(s) /\ Len(s) \in Nat /\ \A i \in 1 .. Len(s) : s[i] \in S
  OBVIOUS

(* The responder's steps: it counts the answer and places a column.        *)
LEMMA ResponderStep ==
  ASSUME ColumnsInv, NEW g \in Groups, Answered(g) \/ Deliver(g) \/ Drained(g)
  PROVE  ColumnsInv'
<1>0. UNCHANGED <<sender, expired>>
  BY DEF Answered, Deliver, Drained
<1> DEFINE r == responder[g]
           c == cols[g]
<1>1. /\ Sender(g)' /\ Responder(g) /\ Sender(g) /\ sender' = [h \in Groups |-> sender'[h]]
      /\ responder = [h \in Groups |-> responder[h]] /\ cols = [h \in Groups |-> cols[h]]
      /\ c \in Seq([build : Nat, when : Nat, extra : Nat])
  BY <1>0 DEF Sender, ColumnsInv, ColumnTypes
<1>n. /\ r.b \in Nat /\ r.failures \in Nat /\ r.good \in Nat
      /\ DOMAIN c = 1 .. Len(c) /\ Len(c) \in Nat /\ \A i \in DOMAIN c : c[i].when \in Nat
  <2>1. DOMAIN c = 1 .. Len(c) /\ Len(c) \in Nat /\ \A i \in 1 .. Len(c) : c[i] \in [build : Nat, when : Nat, extra : Nat]
    BY <1>1, SeqElements
  <2> QED BY <1>1, <2>1 DEF Responder
<1>c. Counting(r, c) /\ Placed(r, c) /\ Ahead(g)
  BY DEF ColumnsInv
<1>2. CASE Answered(g)
  <2>1. /\ responder' = [h \in Groups |-> responder'[h]]
        /\ \A h \in Groups : h # g => responder'[h] = responder[h]
        /\ Rec(responder'[g], {"at", "b", "failures", "good"})
        /\ r.at = "waiting" /\ responder'[g].at = "delivering" /\ responder'[g].b = r.b
        /\ \/ responder'[g].failures = 0 /\ responder'[g].good = r.b
           \/ responder'[g].failures = r.failures + 1 /\ responder'[g].good = r.good
    BY <1>1, <1>2 DEF Answered, Responder, Rec
  <2>2. UNCHANGED cols
    BY <1>2 DEF Answered
  <2>3. Responder(g)'
    BY <1>1, <2>1 DEF Responder
  <2>4. Counting(responder'[g], cols'[g])
    <3>1. responder'[g].good + responder'[g].failures = r.b /\ Len(c) = r.b - 1
      <4> HIDE DEF r, c
      <4> QED BY <1>n, <1>c, <2>1 DEF Counting
    <3> QED BY <2>1, <2>2, <3>1 DEF Counting
  <2>5. r.good + r.failures = r.b - 1
    BY <1>c, <2>1 DEF Counting
  <2>6. Place(r) < Place(responder'[g]) /\ Place(r) \in Nat /\ Place(responder'[g]) \in Nat
    <3> HIDE DEF r
    <3>1. \A q : q.failures = 0 /\ q.good = r.b => Place(r) < Place(q) /\ Place(q) \in Nat
      BY <1>n, <2>5 DEF Place, Started
    <3>2. \A q : q.failures = r.failures + 1 /\ q.good = r.good => Place(r) < Place(q) /\ Place(q) \in Nat
      BY <1>n, <2>5 DEF Place, Started
    <3>3. Place(r) \in Nat
      BY <1>n DEF Place, Started
    <3> QED BY <2>1, <3>1, <3>2, <3>3
  <2> HIDE DEF r
  <2>7. \A i \in DOMAIN c : c[i].when < Place(responder'[g])
    BY <1>n, <1>c, <2>1, <2>6 DEF Placed
  <2>8. Placed(responder'[g], cols'[g])
    BY <1>c, <2>1, <2>2, <2>7 DEF Placed
  <2>9. Ahead(g)'
    BY <1>0, <1>c, <2>1, <2>2 DEF Ahead, r
  <2>10. UNCHANGED cols /\ cols'[g] \in Seq([build : Nat, when : Nat, extra : Nat]) /\ expired \subseteq expired'
    BY <1>0, <1>1, <2>2
  <2> QED BY <1>0, <1>1, <2>1, <2>10, <2>3, <2>4, <2>8, <2>9, OtherGroups
<1>3. ASSUME responder' = [responder EXCEPT ![g].at = "done"], UNCHANGED cols,
             g \in expired \/ (sender[g].at = "closed" /\ Len(c) = r.b)
      PROVE  ColumnsInv'
  <2>1. /\ responder' = [h \in Groups |-> responder'[h]]
        /\ \A h \in Groups : h # g => responder'[h] = responder[h]
        /\ Rec(responder'[g], {"at", "b", "failures", "good"})
        /\ responder'[g].at = "done" /\ responder'[g].b = r.b
        /\ responder'[g].failures = r.failures /\ responder'[g].good = r.good
    BY <1>1, <1>3 DEF Responder, Rec
  <2>2. Responder(g)' /\ Counting(responder'[g], cols'[g]) /\ Placed(responder'[g], cols'[g])
    BY <1>1, <1>c, <1>3, <2>1 DEF Responder, Counting, Placed
  <2>3. Ahead(g)'
    BY <1>0, <1>c, <1>3, <2>1 DEF Ahead
  <2> QED BY <1>0, <1>1, <1>3, <2>1, <2>2, <2>3, OtherGroups
<1>4. CASE Drained(g)
  BY <1>c, <1>3, <1>4 DEF Drained, Counting
<1>5. ASSUME r.at = "delivering", cols' = [cols EXCEPT ![g] = Append(@, Column(r))],
             responder' = [responder EXCEPT ![g].at = "receiving"]
      PROVE  ColumnsInv'
  <2>1. /\ responder' = [h \in Groups |-> responder'[h]]
        /\ \A h \in Groups : h # g => responder'[h] = responder[h]
        /\ Rec(responder'[g], {"at", "b", "failures", "good"})
        /\ responder'[g].at = "receiving" /\ responder'[g].b = r.b
        /\ responder'[g].failures = r.failures /\ responder'[g].good = r.good
    BY <1>1, <1>5 DEF Responder, Rec
  <2>2. r.good + r.failures = r.b /\ Len(c) = r.b - 1 /\ Place(r) \in Nat
    BY <1>n, <1>c, <1>5 DEF Counting, Place, Started
  <2>3. PICK new : new = Column(r)
    OBVIOUS
  <2>4. /\ new \in [build : Nat, when : Nat, extra : Nat]
        /\ new.build = r.b /\ new.when = Place(r) /\ new.extra = r.good
    BY <1>n, <2>2, <2>3 DEF Column, Place
  <2>5. PICK d : d = Append(c, new)
    OBVIOUS
  <2>6. /\ cols' = [h \in Groups |-> cols'[h]] /\ \A h \in Groups : h # g => cols'[h] = cols[h]
        /\ cols'[g] = d
    BY <1>1, <1>5, <2>3, <2>5
  <2>7. /\ d \in Seq([build : Nat, when : Nat, extra : Nat]) /\ Len(d) = r.b /\ DOMAIN d = 1 .. r.b
        /\ d[r.b] = new /\ \A i \in 1 .. (r.b - 1) : d[i] = c[i]
    BY <1>1, <1>n, <2>2, <2>4, <2>5
  <2>8. Counting(responder'[g], d)
    BY <2>1, <2>2, <2>7 DEF Counting
  <2>9. Ahead(g)' /\ Responder(g)'
    BY <1>0, <1>1, <1>c, <1>5, <2>1 DEF Ahead, Responder
  <2>10. Place(responder'[g]) = Place(r)
    BY <2>1 DEF Place
  <2>11. DOMAIN c = 1 .. (r.b - 1)
    BY <1>n, <2>2
  <2>12. Place(r) <= Started(r.b) /\ r.good <= r.b
    BY <1>n, <2>2, SMTT(30) DEF Place, Started
  <2>13. Placed(responder'[g], d)
    <3>1. ASSUME NEW i \in DOMAIN d PROVE d[i].build = i /\ d[i].extra <= i /\ d[i].when <= Started(i)
      <4>1. CASE i = r.b
        BY <2>4, <2>7, <2>12, <4>1
      <4>2. CASE i # r.b
        <5>1. i \in 1 .. (r.b - 1)
          BY <1>n, <2>7, <4>2
        <5> QED BY <1>c, <2>7, <2>11, <5>1 DEF Placed
      <4> QED BY <4>1, <4>2
    <3>2. ASSUME NEW i \in DOMAIN c PROVE c[i].when < Place(r)
      BY <1>c, <1>5, <3>2 DEF Placed
    <3>3. ASSUME NEW i \in DOMAIN d, NEW j \in DOMAIN d, i < j PROVE d[i].when < d[j].when
      <4>1. i \in 1 .. (r.b - 1) /\ (j = r.b \/ j \in 1 .. (r.b - 1))
        <5>1. PICK k \in Int : k = r.b
          BY <1>n
        <5>2. i \in 1 .. k /\ j \in 1 .. k
          BY <2>7, <5>1
        <5>3. i \in 1 .. (k - 1) /\ (j = k \/ j \in 1 .. (k - 1))
          BY <3>3, <5>1, <5>2
        <5> QED BY <5>1, <5>3
      <4>2. CASE j = r.b
        BY <2>4, <2>7, <2>11, <3>2, <4>1, <4>2
      <4>3. CASE j \in 1 .. (r.b - 1)
        BY <1>c, <2>7, <2>11, <3>3, <4>1, <4>3 DEF Placed
      <4> QED BY <4>1, <4>2, <4>3
    <3>4. ASSUME NEW i \in DOMAIN d PROVE d[i].when <= Place(r)
      <4>1. i = r.b \/ i \in 1 .. (r.b - 1)
        BY <1>n, <2>7
      <4>2. CASE i = r.b
        BY <2>2, <2>4, <2>7, <4>2
      <4>3. CASE i \in 1 .. (r.b - 1)
        <5>1. c[i].when < Place(r) /\ c[i].when \in Nat /\ d[i] = c[i]
          BY <1>n, <2>7, <2>11, <3>2, <4>3
        <5> QED BY <2>2, <5>1
      <4> QED BY <4>1, <4>2, <4>3
    <3> QED BY <2>1, <2>10, <3>1, <3>3, <3>4 DEF Placed
  <2> QED BY <1>0, <1>1, <2>1, <2>6, <2>7, <2>8, <2>9, <2>13, OtherGroups
<1>6. CASE Deliver(g)
  BY <1>3, <1>5, <1>6 DEF Deliver
<1> QED BY <1>2, <1>4, <1>6

(* The columns of every group are a prefix of its builds, in order, with   *)
(* increasing times, and all of them if nothing was cut short: for any     *)
(* number of groups that share a pool of any size, and whatever the        *)
(* reading of each build gives.                                            *)
THEOREM ColumnsOrdered == ColumnsSpec => []ColumnsInOrder
<1>1. ColumnsInit => ColumnsInv
  <2> SUFFICES ASSUME ColumnsInit PROVE ColumnsInv
    OBVIOUS
  <2>1. \A g \in Groups : Sender(g) /\ Responder(g)
    BY NumBuildsAssumption DEF ColumnsInit, Sender, Responder, Rec
  <2>2. \A g \in Groups : Counting(responder[g], cols[g]) /\ Placed(responder[g], cols[g]) /\ Ahead(g)
    BY DEF ColumnsInit, Counting, Placed, Ahead
  <2> QED BY <2>1, <2>2 DEF ColumnsInit, ColumnsInv, ColumnTypes
<1>2. ColumnsInv /\ [ColumnsNext]_columnVars => ColumnsInv'
  <2> SUFFICES ASSUME ColumnsInv, [ColumnsNext]_columnVars PROVE ColumnsInv'
    OBVIOUS
  <2>1. CASE UNCHANGED <<sender, responder, cols>> /\ expired \subseteq expired'
    BY <2>1 DEF ColumnsInv, ColumnTypes, Sender, Responder, Ahead
  <2>2. CASE UNCHANGED columnVars
    BY <2>1, <2>2 DEF columnVars
  <2>3. CASE \E w \in Workers : WorkerTakes(w) \/ WorkerAnswers(w)
    BY <2>1, <2>3 DEF WorkerTakes, WorkerAnswers
  <2>4. CASE \E g \in Groups : Grace(g) \/ Cancel(g)
    BY <2>1, <2>4 DEF Grace, Cancel
  <2>5. CASE ClosePool
    <3>1. \A g \in Groups : Ahead(g)'
      BY <2>5 DEF ClosePool, ColumnsInv, Ahead
    <3> QED BY <2>5, <3>1 DEF ClosePool, ColumnsInv, ColumnTypes, Sender, Responder
  <2> QED BY <2>2, <2>3, <2>4, <2>5, SenderStep, ResponderStep DEF ColumnsNext, ColumnSteps
<1>3. ColumnsInv => ColumnsInOrder
  <2> SUFFICES ASSUME ColumnsInv, NEW g \in Groups
               PROVE  /\ \A i \in DOMAIN cols[g] : /\ cols[g][i].build = i /\ cols[g][i].extra <= i
                                                   /\ cols[g][i].when <= Started(i)
                      /\ \A i, j \in DOMAIN cols[g] : i < j => cols[g][i].when < cols[g][j].when
                      /\ (sender[g].at = "returned" /\ g \notin expired) => Len(cols[g]) = NumBuilds[g]
    BY DEF ColumnsInOrder
  <2> QED BY DEF ColumnsInv, Placed, Ahead
<1> QED BY <1>1, <1>2, <1>3, PTL DEF ColumnsSpec
=============================================================================
