------------------------------ MODULE MCEngineRun ------------------------------
(* Small jobs for EngineRun. *)
EXTENDS EngineRun

Span(l, h) == [lo |-> l, hi |-> h]
Index(l, h, n) == [lo |-> l, hi |-> h, near |-> n]

\* The quads of a field are 1 to 2 pixels: a scale of 5 has quads of 5 to 10.
\* No index file has quads between 3 and 9.
FourIndexes == <<Index(10, 12, TRUE), Index(9, 11, TRUE), Index(3, 3, TRUE), Index(3, 3, FALSE)>>

\* Two fields, and one that does not exist; a WCS to verify; indexes one by one.
SerialJob ==
    [depths |-> <<Span(1, 2), Span(3, 4)>>, scales |-> <<Span(5, 5)>>, wcs |-> <<Span(9, 10)>>,
     fields |-> <<1, 2, 7>>, numFields |-> 2, limit |-> 2, solvedIn |-> TRUE, solvedOut |-> TRUE,
     solvedIsCancel |-> FALSE, others |-> FALSE, inparallel |-> FALSE]

\* One field, no solved file; scales too small for any index, too large, and
\* from the default width up to 5.
SingleJob ==
    [SerialJob EXCEPT !.numFields = 1, !.solvedIn = FALSE, !.solvedOut = FALSE,
                      !.scales = <<Span(1, 1), Span(13, 13), Span(0, 5)>>]

\* All indexes at once, and other engines at work on the same fields.
ParallelJob ==
    [SerialJob EXCEPT !.inparallel = TRUE, !.others = TRUE, !.wcs = <<>>, !.fields = <<1, 2>>,
                      !.scales = <<Span(5, 0), Span(1, 1)>>]

\* The file given with -s, here a short job without a limit.
SolvedCancelsJob ==
    [SerialJob EXCEPT !.solvedIsCancel = TRUE, !.wcs = <<>>, !.depths = <<Span(1, 4)>>,
                      !.limit = 0]

OneField == [SerialJob EXCEPT !.wcs = <<>>, !.fields = <<1>>, !.numFields = 1, !.limit = 0]
OpenJobs == {[OneField EXCEPT !.depths = <<Span(1, 2), Span(3, 0)>>]}
\* Scales that fall between the index files.
GapJobs == {[OneField EXCEPT !.scales = <<Span(4, 4)>>]}
VerifyJobs == {[OneField EXCEPT !.wcs = <<Span(9, 10)>>, !.limit = 2]}

AllJobs == {SerialJob, SingleJob, ParallelJob, SolvedCancelsJob} \cup GapJobs
================================================================================
