--------------------------- MODULE DatasetReader ---------------------------
(***************************************************************************)
(* What becomes of the worker's file on its way to the trainer: the copy   *)
(* that capture-dataset makes (Makefile), and loadOfflineSamples           *)
(* (load-balancer/cmd/mopso-train/main.go), which reads a file into        *)
(* samples or refuses it.                                                  *)
(***************************************************************************)
EXTENDS DatasetWorker, Lists

\* The first line must name the columns the trainer needs; every line after it
\* must have as many columns as the first (encoding/csv) and numbers where
\* numbers belong.  Of the two optional columns os_idle_cpu falls back to its
\* default.  One bad line refuses the file, and so does a file with no row: of
\* a refused file nothing is read.
Names(line) == line.of = "header" /\ line.width > Needed
Parses(line, columns) == line.width = columns /\ line.of = "row"

LoadOfflineSamples(f) ==
    IF \/ f = <<>>
       \/ ~Names(f[1])
       \/ \E i \in 2..Len(f) : ~Parses(f[i], f[1].width)
    THEN <<>>
    ELSE [i \in 1..(Len(f) - 1) |-> f[i + 1].cells]

\* capture-dataset drops the header wherever it stands and puts one in front.
IsHeader(line) == line.of = "header" /\ line.kind = "whole"
Captured(f) == <<Header>> \o Only(f, {line \in Range(f) : ~IsHeader(line)})

-----------------------------------------------------------------------------
Rows(f) ==
    LET rows == Only(f, {line \in Range(f) : line.of = "row"})
    IN  [i \in DOMAIN rows |-> rows[i].req]

SumFor(samples_, n) == SumFunction([i \in DOMAIN samples_ |-> samples_[i][n]])

\* A file without a damaged line is read whole: as it is, unless it was emptied
\* under the worker, which writes no second header; and captured, in any case.
\* From a damaged file the trainer may still read a row that lacks part of its
\* last column, or that was appended to a fragment of a first one; but until a
\* Sync fails it never reads a request that was not sent, or one twice.
TrainerReadsWhatWasSent ==
    /\ (\A i \in DOMAIN file : file[i].kind = "whole") =>
          /\ LoadOfflineSamples(Captured(file)) = Rows(file)
          /\ clears = 0 => LoadOfflineSamples(file) = Rows(file)
    /\ ~syncFailed =>
          \A f \in {file, Captured(file)}, n \in Nodes :
              SumFor(LoadOfflineSamples(f), n) <= accepted[n]

=============================================================================
