------------------------------ MODULE MetricServer -----------------------------
(***************************************************************************)
(* scripts/metrics/analyzeperfmetrics.py with -p or -q, when it is a server*)
(* that the links in a trace lead to: PerfMetricsHTTPServer finds the      *)
(* sections of the file, and do_GET looks for the kernel instance of a     *)
(* request in one after the other.  A request is                           *)
(*   [local |-> b, form |-> f, kernel |-> k, instance |-> n]               *)
(* where the form of its path is "favicon", "short" (no instance), "bad"   *)
(* (an instance that is no number) or "full".  A chart is the lines of the *)
(* file that it shows; the stall report in it is modelled in Stalls.       *)
(***************************************************************************)
EXTENDS MetricsFile

CONSTANT Requests

VARIABLES
  linenum,        \* the line of the file
  header,         \* the last header line met
  devicefound,
  eustall,        \* a header line with stall events was met
  sections,       \* <<header, last>>
  request,
  sec,            \* section that is tried next
  reply           \* what was sent: nothing, "Invalid", a chart, a message, "none"

scan == <<linenum, header, devicefound, eustall, sections>>
server == <<scan, request, sec, reply>>

Nothing == [kind |-> "nothing"]
Text(kind) == [kind |-> kind]
Pdf(lines) == [kind |-> "chart", lines |-> lines]

ServerInit ==
  /\ linenum = 1 /\ header = 1 /\ devicefound = FALSE /\ eustall = FALSE
  /\ sections = <<>>
  /\ request = [local |-> FALSE]
  /\ sec = 1
  /\ reply = Nothing

PerfMetricsHTTPServer ==
  /\ pc' = "scan"
  /\ UNCHANGED <<file, options, server>>

\* Variant for the mutation runs: a header line outside a section is passed over.
ScanRowInside ==
  /\ pc = "scan" /\ linenum <= Len(file)
  /\ header' = IF IsHeader(file[linenum]) /\ devicefound THEN linenum ELSE header
  /\ eustall' = (eustall \/ (IsHeader(file[linenum]) /\ file[linenum].stall))
  /\ IF IsBanner(file[linenum])
     THEN /\ devicefound' = ~devicefound
          /\ sections' = IF devicefound THEN Append(sections, <<header, linenum>>) ELSE sections
     ELSE UNCHANGED <<devicefound, sections>>
  /\ linenum' = linenum + 1
  /\ UNCHANGED <<shared, request, sec, reply>>

\* The banner that ends one section does not begin the next one.
ScanRow ==
  /\ pc = "scan" /\ linenum <= Len(file)
  /\ header' = IF IsHeader(file[linenum]) THEN linenum ELSE header
  /\ eustall' = (eustall \/ (IsHeader(file[linenum]) /\ file[linenum].stall))
  /\ IF IsBanner(file[linenum])
     THEN /\ devicefound' = ~devicefound
          /\ sections' = IF devicefound THEN Append(sections, <<header, linenum>>) ELSE sections
     ELSE UNCHANGED <<devicefound, sections>>
  /\ linenum' = linenum + 1
  /\ UNCHANGED <<shared, request, sec, reply>>

\* The last section; then the port is opened and the certificate loaded: a port
\* in use or a certificate that cannot be made or loaded ends the script.
StartServer ==
  /\ pc = "scan" /\ linenum > Len(file)
  /\ sections' = Append(sections, <<header, linenum>>)
  /\ \/ pc' = "failed"
     \/ options.https /\ options.certificate \in {"incomplete", "missing"} /\ pc' = "ended"
     \/ (options.https => options.certificate \in {"none", "files"}) /\ pc' = "serve"
  /\ UNCHANGED <<file, options, linenum, header, devicefound, eustall, request, sec, reply>>

\* do_GET: other hosts and the icon get no answer.
DoGet(r) ==
  /\ pc = "serve"
  /\ request' = r
  /\ pc' = IF r.local /\ r.form = "full" THEN "get" ELSE "serve"
  /\ reply' = IF r.local /\ r.form \in {"short", "bad"} THEN Text("Invalid") ELSE Nothing
  /\ sec' = 1
  /\ UNCHANGED <<file, options, scan>>

\* HttpAnalyzePerfMetrics: the samples of the instance, whatever kernel was named.
Instances(s, n) ==
  {l \in (s[1] + 1)..(s[2] - 1) : file[l].kind = "sample" /\ file[l].id = n}
HttpAnalyzePerfMetrics(s) ==
  IF options.sets = 0 \/ Instances(s, request.instance) = {} THEN Text("none")
  ELSE IF ~options.known THEN Text("message")
  ELSE Pdf(Instances(s, request.instance))

\* HttpAnalyzeStallMetrics: the first block of rows of the kernel, those with
\* events.
KernelBlock(s, k) ==
  {l \in (s[1] + 1)..(s[2] - 1) :
     \E m \in (s[1] + 1)..l :
       /\ \A n \in m..l : file[n].kind = "sample" /\ file[n].kernel = k
       /\ \A n \in (s[1] + 1)..(m - 1) : file[n].kind = "sample" => file[n].kernel # k}
HttpAnalyzeStallMetrics(s) ==
  LET block == KernelBlock(s, request.kernel)
      stalled == {l \in block : file[l].events}
  IN IF options.dump = "missing" \/ block = {} THEN Text("message")
     ELSE IF stalled = {} THEN Text("none") ELSE Pdf(stalled)

Answer(s) == IF eustall THEN HttpAnalyzeStallMetrics(s) ELSE HttpAnalyzePerfMetrics(s)

TrySection ==
  /\ pc = "get"
  /\ \/ /\ sec <= Len(sections) /\ Answer(sections[sec]).kind = "none"
        /\ sec' = sec + 1
        /\ UNCHANGED <<reply, pc>>
     \/ /\ sec <= Len(sections) /\ Answer(sections[sec]).kind # "none"
        /\ reply' = Answer(sections[sec])
        /\ pc' = "serve"
        /\ UNCHANGED sec
     \/ /\ sec > Len(sections)
        /\ reply' = Text("none")
        /\ pc' = "serve"
        /\ UNCHANGED sec
  /\ UNCHANGED <<file, options, scan, request>>

\* KeyboardInterrupt
Interrupt ==
  /\ pc \in {"scan", "serve", "get"}
  /\ pc' = "ended"
  /\ UNCHANGED <<file, options, server>>

--------------------------------------------------------------------------------
\* The sections that the scan keeps: of every other device, and of the last.
BannerLines == {n \in DOMAIN file : IsBanner(file[n])}
Banners == [i \in 1..Cardinality(BannerLines) |-> file[Nth(BannerLines, i)]]
Kept ==
  {Banners[n].device : n \in {m \in DOMAIN Banners : m % 2 = 1 \/ m = Len(Banners)}}
SectionOf(d) == <<HeaderOf(file, d), LastOf(file, d)>>
Earlier(c, d) == BannerOf(file, c) < BannerOf(file, d)

\* A chart shows all samples of the instance (of the kernel, for stall events)
\* that the file has for one device; a request is refused only if no device
\* before one that is passed over for good has them.  Of the devices, those in
\* an even position that are not the last are never looked at; and a kernel
\* without stall samples on one device ends the search on the others.
AnswerComplete ==
  pc = "serve" /\ request.local /\ request.form = "full" /\ reply # Nothing =>
    LET Silent(d) == Answer(SectionOf(d)) = Text("none")
        answering == {d \in Kept : ~Silent(d)}
    IN IF answering = {} THEN reply = Text("none")
       ELSE \E d \in answering :
              /\ \A c \in answering \ {d} : Earlier(d, c)
              /\ reply = Answer(SectionOf(d))
================================================================================
