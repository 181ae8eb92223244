--------------------------- MODULE ClangFormatReport ---------------------------
(***************************************************************************)
(* process_clang-format_errors.py: turns the log of clang-format into the  *)
(* XML report that the workflow shows.  A line of the log is the header of *)
(* an error or belongs to the header above it.                             *)
(***************************************************************************)
EXTENDS Integers, Sequences

CONSTANTS
  Headers,   \* lines with ": error:" and "[-Wclang-format-violations]"
  Details,   \* any other lines
  MaxLines   \* bound: lines of a log

(* Assumed of the constants. *)
LinesAssumption == Headers \cap Details = {} /\ MaxLines \in Nat

VARIABLES
  log,       \* clang-format_errors.log
  read,      \* how many of its lines createErrorList has read
  errorList, \* each error: its header and what follows it
  xml,       \* clang-format_errors.xml: "none", "old" or a list of errors
  outcome    \* "running", "success", "failure" or the exception, "IndexError"

reportVars == <<log, read, errorList, xml, outcome>>

Error == [header : Headers, info : Seq(Details)]
Logs == UNION {[1 .. n -> Headers \cup Details] : n \in 0 .. MaxLines}
NoXml == [state |-> "none", errors |-> <<>>]
OldXml == [state |-> "old", errors |-> <<>>]

TypeOK ==
  /\ log \in Logs /\ read \in 0 .. Len(log)
  /\ errorList \in Seq(Error)
  /\ xml \in [state : {"none", "old", "new"}, errors : Seq(Error)]
  /\ outcome \in {"running", "reading", "success", "failure", "IndexError"}

Init ==
  /\ log \in Logs /\ read = 0 /\ errorList = <<>>
  /\ xml \in {NoXml, OldXml}
  /\ outcome = "running"

(* A mistake for a run that must fail: an error keeps its last detail only.   *)
KeepLastDetail(list, line) ==
  [list EXCEPT ![Len(list)].info = <<line>>]

-------------------------------------------------------------------------------
RemoveXml == xml' = NoXml

Main ==
  /\ outcome = "running"
  /\ IF log = <<>> THEN outcome' = "success" /\ UNCHANGED xml
     ELSE outcome' = "reading" /\ RemoveXml
  /\ UNCHANGED <<log, read, errorList>>

AddDetail(list, line) ==
  [list EXCEPT ![Len(list)].info = Append(@, line)]

(* One line in createErrorList; errorList[-1] raises when there is none.      *)
ReadLine ==
  /\ outcome = "reading" /\ read < Len(log)
  /\ read' = read + 1
  /\ LET line == log[read + 1]
     IN  \/ /\ line \in Headers
            /\ errorList' = Append(errorList, [header |-> line, info |-> <<>>])
            /\ UNCHANGED outcome
         \/ /\ line \in Details /\ errorList # <<>>
            /\ errorList' = AddDetail(errorList, line)
            /\ UNCHANGED outcome
         \/ /\ line \in Details /\ errorList = <<>>
            /\ outcome' = "IndexError"
            /\ UNCHANGED errorList
  /\ UNCHANGED <<log, xml>>

WriteXml ==
  /\ outcome = "reading" /\ read = Len(log)
  /\ xml' = [state |-> "new", errors |-> errorList]
  /\ outcome' = "failure"
  /\ UNCHANGED <<log, read, errorList>>

Next == Main \/ ReadLine \/ WriteXml

Spec == Init /\ [][Next]_reportVars

-------------------------------------------------------------------------------
(* Every line of the log is in the report, in the order of the log.           *)
(* error i is made of the lines begin[i] up to begin[i + 1] - 1.              *)
Reports(errors, n) ==
  \E begin \in [1 .. Len(errors) + 1 -> 1 .. n + 1] :
    /\ begin[1] = 1 /\ begin[Len(errors) + 1] = n + 1
    /\ \A i \in DOMAIN errors :
         /\ begin[i] < begin[i + 1]
         /\ errors[i] = [header |-> log[begin[i]],
                         info |-> SubSeq(log, begin[i] + 1, begin[i + 1] - 1)]

EveryLineReported == xml.state = "new" => Reports(xml.errors, Len(log))

(* A run that fails never leaves the report of an earlier log to be shown.    *)
NoStaleReport == outcome \in {"failure", "IndexError"} => xml.state # "old"
===============================================================================
