# Verification of the Rialto OpenCDM adapter

This directory holds TLA+ models of the repository `rialto-ocdm`. That is two
programs in one tree:

* the **library**, which offers the OpenCDM C API (`opencdm_*`) to an application
  and forwards it to Rialto's `IMediaKeys` (C++, `library/`);
* the **scripts** that build, test and check it: `build_ut.py`, the three report
  scripts of the workflows, and the `cpplint.py` kept in `scripts/cpplint`, which
  has rules of this project's own (Python).

In the library the models cover what is concurrent or stateful: when the
`IMediaKeys` object exists, how session objects are shared and freed, how
messages find their session, and how a session is opened, asked and closed while
Rialto's own thread is at work. The scripts are sequential; there the models
cover what a failed command leaves for the next run, what one file leaves for the
next, and the state machines that `cpplint.py` reads C++ with. TLC checks small
instances; TLAPS proves every safety property that TLC checks but one for every
value of the constants: in the library all of them, in the scripts the build, the
report scripts and `cpplint.py` but for the functions, strings and expressions of
a text.

## The system

### The library

| Part | State | Operations | Hard about it |
|---|---|---|---|
| `CdmBackend` (one per system) | `m_appState`, `m_mediaKeys`, mutex, condition variable | `initialize`, `notifyApplicationState`, `createKeySession` (waits up to 1 s for RUNNING), 15 forwarded calls | three kinds of threads, registration races notification, object dropped under callers, `notify_one`, deadline |
| `OpenCDMSystemPrivate` | shared pointers to the above and to the dispatcher | constructor registers the backend with Rialto's Control, then initializes it | both results are ignored |
| `ActiveSessions` (process-wide) | map from session to reference count, mutex | `create`, `get` by key id, `remove` | reference counts under races; deletes with its mutex held |
| `MessageDispatcher` (one per system) | set of raw client pointers, mutex | add/remove client, three handlers that walk through the clients | callbacks run with its mutex held; raw pointers |
| `OpenCDMSessionPrivate` | key session id, initialized flag, challenge, key statuses, dispatcher client | initialize, generateRequest, getChallengeData, close, messages | members shared with Rialto's thread, order inside close, destruction |
| `open_cdm*.cpp` | none | the C API | undoing a failed construction, ignored results |
| protection metadata, decrypt adapter | the selected PlayReady key, in the session | `decrypt`, `decrypt_ex`, `decrypt_buffer`: metadata for Rialto on a GStreamer buffer | two ways to the same metadata, upstream fields missing or mistyped, empty key ids |
| `Logger` | one stream per logger, one global sink | `operator<<`, and `~Flusher` that hands the line over | streams shared without a lock, a file shared with one |
| `MediaKeysCapabilitiesBackend` | none | two queries | nothing |

Calls go from the API to a session, from the session to `CdmBackend` (which
holds its mutex through the IPC), and to `ActiveSessions` for sharing. Messages
come from Rialto's thread through `MessageDispatcher` to every session, and from
there to the application's callbacks. `ActiveSessions::remove` deletes a session
with its mutex held, and the destructor takes the dispatcher's mutex: that is
the one nesting of locks in the library.

### The scripts

| Part | State | Operations | Hard about it |
|---|---|---|---|
| `build_ut.py` | the output directory, which outlives a run | clean, configure, build, run the suites, coverage | any command may fail and leave half a file; the next run may have other options |
| `process_clang-format_errors.py`, `process_valgrind_results.py`, `process_coverage_stats.py` | report files of earlier runs | log or XML in, report out | inputs that are missing or not what was expected; an old report left in place |
| `cpplint.py`: run | filters, their backup, settings and counters, all in the module | command line, `CPPLINT.cfg` of a file's directories, report, exit status | what one file's configuration leaves for the next; the order in which configurations apply |
| `cpplint.py`: file | suppressions, lines | comments removed, NOLINT read, errors reported, line by line | an error is suppressed only by a comment that has been read by then |
| `cpplint.py`: nesting | stack of blocks, stack of conditionals | `Update` per line | blocks cut in two by conditionals; blocks shared with saved stacks |
| `cpplint.py`: includes | a list of includes for each conditional, section, last header | `CheckIncludeLine`, `CheckForIncludeWhatYouUse` | conditionals within conditionals, what a section remembers |
| `cpplint.py`: functions | the function at hand and its lines | `Begin`, `Count`, `Check`, `End` | functions that begin before the last one has ended |
| `cpplint.py`: text | the delimiter of a raw string that goes on | raw strings, strings and comments out of a line; ends of expressions | what is inside what |
| `cpplint.py`: names | none beyond a header | name in the repository, header guard | checkouts within each other; many namespaces and one guard |

The workflows call the scripts one after the other; files are all they share.
`cpplint.py` runs its parts over one file at a time: run, file, then for each
line nesting, functions and includes, and at the end of the file the includes
and the header guard. Its parts meet in the suppressions and the filters, through
which every error has to pass.

### What makes each part correct

* `CdmBackend`: RUNNING exactly while there is an object; the object never
  vanishes under a caller; agreement with Rialto's state once things settle;
  no early refusal; no thread stuck.
* `ActiveSessions`: exact counters; a session lives from creation to the removal
  of its last reference, and not longer.
* `MessageDispatcher`: nobody who has been removed is called, and a dispatch ends
  when everybody who was registered at its beginning has been called once.
* Sessions: messages never reach freed memory; a closed session is silent; a
  challenge belongs to its session; a failed construction leaves nothing behind;
  every call returns.
* Protection metadata: the server gets what it requires, whichever way a buffer
  is decrypted; no empty key id once a key is selected.
* `Logger`: lines are whole, and nothing above the level is logged.
* `build_ut.py`: a run that says it succeeded did all it was asked for, and a
  report that is there is about tests that passed.
* Report scripts: nothing in the input is lost, and no report is about an older
  input.
* `cpplint.py`, run and file: the configuration next to a file decides, nothing is
  left for the next file, and exactly those errors are suppressed that a comment
  names.
* `cpplint.py`, what it reads: its idea of the text is that of the text C++ sees,
  as far as a tool can have one that reads both branches of a conditional.

## Modules

| Module | Models | Uses |
|---|---|---|
| `MediaKeysGate` | abstract: an object that appears and vanishes only with nobody inside | |
| `CdmBackend` | `CdmBackend.cpp` and the constructor of `OpenCDMSystemPrivate` | implements `MediaKeysGate` |
| `SharedOwnership` | abstract: an object shared by handles | |
| `ActiveSessions` | `ActiveSessions.cpp` | implements `SharedOwnership` |
| `MessageDispatcher` | `MessageDispatcher.cpp` | |
| `OpenCdm` | sessions and the API calls that change their state | composes `ActiveSessions` and `MessageDispatcher` by INSTANCE |
| `ChallengeWait` | one session asked for its challenge by many threads | |
| `ProtectionMeta` | `addProtectionMeta`, `selectKeyId` and the decrypt adapter | |
| `Logger` | `Logger.cpp` | |
| `UnitTestBuild` | `build_ut.py` | |
| `ClangFormatReport`, `ValgrindReport`, `CoverageComparison` | the three report scripts | |
| `LintRun` | `cpplint.py`: `CPPLINT.cfg`, filters, counters, exit status | |
| `FileSelection` | `cpplint.py`: options and the list of files | |
| `LintFile` | `cpplint.py`: `ProcessFileData`, NOLINT comments | |
| `Blocks` | the stack of blocks and what a token does to it | |
| `BraceNesting` | abstract: the blocks open in a text without conditionals | `Blocks` |
| `BlockNesting` | `cpplint.py`: `NestingState` | `Blocks`; implements `BraceNesting` |
| `IncludeState` | `cpplint.py`: repeated includes and their order | |
| `IncludeWhatYouUse` | `cpplint.py`: the includes a file should have | extends `IncludeState` |
| `FunctionLength` | `cpplint.py`: `_FunctionState` | |
| `Cleansing` | `cpplint.py`: raw strings, strings, comments | |
| `Expressions` | `cpplint.py`: `CloseExpression`, `ReverseCloseExpression` | |
| `Endings` | where assembly, functions and brackets end | `BlockNesting`, `FunctionLength`, `Expressions` |
| `FilePaths` | `cpplint.py`: `FileInfo.RepositoryName`, `CheckFilenameFormat` | |
| `HeaderGuard` | `cpplint.py`: `CheckForHeaderGuard` | |
| `SessionCalls` | many sessions, or many threads in one | `OpenCdm`, `ChallengeWait` |
| `Scripts` | `build_ut.py`, the report scripts, and what `cpplint.py` does with files | `UnitTestBuild`, the reports, `LintRun`, `FileSelection`, `LintFile`, `FilePaths`, `HeaderGuard` |
| `...Proofs` | theorems of the module they are named after; `LintTextProofs`, of `Endings`, `IncludeWhatYouUse` and `Cleansing` | |
| `MC...` | instances for TLC | |

Some parts of the system have nothing to do with each other, and are composed
nevertheless, to be checked in one run: `SessionCalls`, `Scripts`, `Endings` and
`MCLintText`.
A variable `part`, which never changes, says which part a behaviour is of, and the
variables of the others stand still. A property of one part is wrapped as
`part = ... => ...` under the same name, or is stated of all states if those of the
other parts fulfil it by standing still. `SessionCalls`, `Scripts` and `Endings` are
parameterised by the constants of their parts, and theorems are about them; their MC
modules only give values. `MCLintText` gives values and composes `Endings` with the includes and `Cleansing`.

### CdmBackend

A method that only touches members under `m_mutex` is one action with the guard
`mutex = NoThread`. A call into `IMediaKeys` is a blocking IPC and has two: it is
entered (`Forward`) with the mutex taken, and it ends (`Return`). Which of the
forwarded methods it is makes no difference to the state, so `Call` stands for
all of them but `createKeySession`. That one is modelled with the condition
variable: `CreateKeySession` tests the predicate and may fall asleep, `NotifyOne`
picks a sleeper, `SpuriousWakeup` wakes one unasked, `Wake` tests again, and
`Deadline` is the end of `wait_for`, whose result the code ignores. Time is
abstracted: a deadline may pass at any moment, also before a signal that was
already given has been acted upon.

`control` is the application state Rialto is in. It changes at any time; a
registered backend is then told (`notifying`). Rialto never goes back to
UNKNOWN, and it delivers one notification before the next change. Registration
returns the state it finds, or fails, which the constructor does not look at.

### ActiveSessions

`count` is `m_activeSessions`, with 0 for "no entry"; `deleting` is the session
that `remove` is deleting, and the mutex is taken as long as there is one.
`handle` is the application's side: the pointers it received and has not given
back. A pointer that is not in the map makes `remove` do nothing; a correct
application passes none and the model has no such step.

### MessageDispatcher

`message` is the message whose dispatch holds the mutex, `remaining` the clients
the walk has still to reach, `callee` the one being called. The three handlers
differ only in what they pass on, so they share these actions. `reached` is a
history variable: those who were called since the dispatch began, kept by a rule
of its own, so that the property need not ask `remaining` who they were.

### OpenCdm

The composition. `call[t]` says which function a thread is in, at which step,
and on which handle; the steps are the places where the code takes a mutex or
talks to Rialto, in the order of the code. A construction goes through `create`,
`register`, `generate`, and on failure through `close`, `unregister`, `clear`,
`remove`, `delete`; closing and destructing enter that path further down;
`opencdm_session_get_challenge_data` shares its beginning and ends in `wait`.
`deleting` keeps the session between `remove` and `delete`: it is half-destroyed,
but still registered if it was not closed. Addresses are used again.

A key session id is a number that is never given out twice. Rialto's side is
external: it may send a licence request or a key status for any live key session
at any time (which covers what `opencdm_session_update`, `_store_license_data`,
`_load` and renewals bring about; these calls change nothing in the library),
messages are delayed and overtake each other, and they may arrive when the key
session is long closed. A key status message carries one key, and the status is
either `InternalError`, which for `get` is as good as none, or another. Refused
calls and a lost reply to `closeKeySession` are included. Leaving RUNNING ends
all key sessions and may lose what is on its way.

Assumed of the application: a handle is used by one thread at a time, one
session is asked to do one thing at a time (its members have no lock that would
allow more), both callbacks are given, and they do not call back into the
library: the mutex they run under would be waited for by its owner. Assumed of
Rialto: an id is not given again by a later `IMediaKeys`, or `OwnChallenge` would
not hold of messages that outlive theirs, as sessions know them by the id only.

### ProtectionMeta

A structure is a record, with `Absent` for a field that is not there and
`Mistyped` for one of another type than the code asks for. A `GstBuffer` in a
field is represented by what the code reads of it: a key id, or the size of an
IV. `FromArguments` and `FromUpstream` are the two forms of `addProtectionMeta`,
as functions; the actions are the calls on the session around them. A behaviour
follows one buffer, which upstream left in any shape, decrypted once: the code
takes nothing from one buffer to the next but the two members of the session.

The two forms differ in what they do to a key id that is not empty:
`decrypt_buffer` replaces it by the selected key, `decrypt` keeps it. Nothing in
the repository says which is meant, so `FormsAgree` leaves that case out, along
with those in which upstream contradicts what `decrypt` always says (that the
sample is encrypted, with scheme 0, and the IV's size is that of the IV).

### Logger

`stream` is what has been streamed into each Logger, as pieces of messages;
`doing` is where each thread is in its log statement: `building`, `write`,
`newline` (inside `LogFile::write`, or between the two writes to the console),
`clear`. The line is copied out of the stream (`EndMessage`) before the file's
mutex is waited for. Two threads in one stream are a data race. The model has two
of its effects, pieces in any order and pieces lost; that the race may also
corrupt the stream or end the process is left out, so that nothing said about
shared Loggers is more than the best case. What it says about a Logger used by
one thread does not depend on that.

### ChallengeWait

`OpenCdm` lets one thread at a time into a session. Two handles for a session may
though both ask for its challenge, and then the condition variable matters:
`UpdateChallenge` stores the challenge and signals one of `asleep`, `Wait` tests
whether there is one, `SpuriousWakeup` wakes a thread unasked. A request that
Rialto took is `due` until its answer arrives; renewals arrive unasked. Challenges
are numbered in the order of their arrival. The session may be closed meanwhile,
in the two steps of `closeSession` that matter here.

### UnitTestBuild

`todo` holds the commands that an invocation has still to run, as `main` orders
them from its options; each runs and its exit status is looked at (`Runcmd`), and
a failure ends the invocation. `tree` is the output directory: whether there is
an executable and for what it was built, the counters of executed lines with the
invocations they are of, and each report with the invocation that wrote it, what
it counts and whether it is whole. A command that fails may have left its file
untouched or half written. What cmake, make, lcov and genhtml need and leave is
external. The loop over suites in `runTests` has one entry in the repository. The
options that list or filter tests are left out: passed tests are those that were asked
for.

### The report scripts

`ClangFormatReport` reads the log line by line into a list of errors;
`ValgrindReport` reads the XML files in the order the directory gives them, which
is any; `CoverageComparison` parses two texts, each of which may be unreadable,
and writes one. Each ends with a report or an exception.

### LintRun, FileSelection, LintFile

`LintRun` goes up from a file's directory through its configurations, entry by
entry; `filters`, `filtersBackup` and `settings` are the variables of the module
that they change, and `Restore` and its absence are in the places where the code
restores and does not. The filters of a file's configurations are collected and
then applied one configuration after the other, the outermost first; the errors are
reported one at a time, in any order. An invalid filter or `includeorder` ends the
run without a report. What is found in a file is a constant of categories and
confidences, since what matters is which of them are reported and counted.

`FileSelection` reads the options one after the other. Paths are sequences of
names and names sequences of characters, because `_IsParentOrSame` compares texts
(`os.path.commonprefix` knows nothing of directories). An argument that is no
directory stays with `--recursive` too, whether there is such a file or not.

`LintFile` follows one file through the comments that go over several lines, the
header guard (before the first line), the lines, and the checks at the end. A line is what
the order matters for: whether it opens or closes a comment, its NOLINT, and what the
checks find on it, on the line before or on the next.

### Blocks, BraceNesting, BlockNesting

A line is a sequence of tokens, of which `Consume` takes one; the operators of
`Blocks` say what a token does to the stack, and are shared. `BraceNesting` reads a
text without conditionals. `BlockNesting` has the stack of saved stacks of the
code. Refinement: `BlockNesting` implements `BraceNesting` when it is looked at
through `Compiled`, the stack as it was at the outermost `#else` that is
still open, and lines behind that `#else` are stutters. So what `cpplint.py`
has of the nesting is that of the text it takes to be compiled: the first branch
of every conditional, however deep they nest and wherever they cut a block.

### IncludeState, IncludeWhatYouUse

`source` is the file at hand, with the order of includes that was asked for and the
headers it may include: a behaviour is of one of `Sources`. A text grows by one
line, an include, a blank, a use or a directive; directives come in any order and
number, as `ResetSection` does not count them. A header is what `_ClassifyInclude`
and the comparison of names look at. `include_list` is a list of lists as in the
code. At the end of the text `EndOfFile` demands what
`CheckForIncludeWhatYouUse` and `CheckHeaderFileIncluded` would; the order in
which Python iterates a set of strings is left open.

Where the code asks whether one text is in another (`NamesHeader`) or ends with it
(`FilesBelongToSameModule`), paths are spelled out (`Spelled`) as sequences of
syllables: the constant `Spelling` divides those names that have another name in
them, as `mapBar` has `map`; `Checkout` is where the repository is, and `OnDisk` the
headers that can be opened. Left out are two directories called `public` or
`internal` in a row, of which `replace` takes one, and `include` texts with `./`.

### FunctionLength, Cleansing, Expressions, FilePaths, HeaderGuard

`FunctionLength` reads a text by the line; its triggers are small. `Cleansing`
takes one line at a time, with the raw string that the line before left open. First
the line is read as C++ reads it, token by token (`ReadToken`): a small automaton
(`After`) says what each token leads to, and `code` and `kept` collect what is code,
without and with what is in its strings. Then come the steps of `CleansedLines`, one
action for each turn of a loop: a raw string is replaced, a comment is cut, a block is
removed, a string is collapsed. The properties compare what the code leaves with what
C++ read. A line of a program is assumed: strings and characters end on their line, a
raw string does not begin inside a comment, `/* */` comments end on their line and have
neither quotes nor `//` in them (`BlocksAssumption`). Escaped characters, digit
separators and the exemption of `#include "..."` from collapsing are left out.
`Expressions` reads tokens forwards as far as the search goes and then
searches back; a text is of one of several alphabets, which keep the number of texts
small and change nothing in the search. `FilePaths` looks upwards from a file for svn, git and hg, as
`RepositoryName` does. `HeaderGuard` keeps of a header what the loop of
`CheckForHeaderGuard` keeps, and, for its properties, which guard its first two
directives are of.

## What the runs check

| Run | Instance | Shows |
|---|---|---|
| `backend_faulty` | 3 threads, the factory may fail | `RunningIffMediaKeys`, `RefusedOnlyAfterDeadline`, `WakesASleeper`, `ImplementsGate` |
| `backend_live` | 2 threads, working factory, fairness | `SettledAgreement`, `CallsReturn`, `NotificationsDelivered` |
| `registry` | 3 addresses, 4 handles | `CountsHandles`, `ImplementsSharedOwnership` |
| `dispatcher` | 3 clients, 2 messages | `OnlyClientsAreCalled`, `NobodyIsPassedOver` |
| `sessions_faulty` | 2 threads, 2 addresses, 2 handles, 2 key sessions, faults of Rialto | `EventsReachObjects`, `ClosedIsSilent`, `InitializedListens`, `OwnChallenge`, `GivenIsInitialized` |
| `sessions_live` | 2 threads, 2 handles, one PlayReady session; or 3 threads in one session, 5 challenges; fairness | `CallsReturn` of both, `SessionsAreFreed`; `SleepersAreDueAnswers`, `NeverGoesBack` |
| `sessions_leak` | 1 thread, closes before it destructs | `MksIsDestructed` is violated |
| `protection_meta` | 2 keys, 2 sizes of IV, every shape of upstream metadata | `ServerCanDecrypt`, `PatternSurvives`, `FormsAgree`, `NoEmptyKeyOnceSelected` |
| `logger` | 3 threads, 2 Loggers, 3 messages, all three sinks | `OwnLine`, `LevelHolds`, `NothingStays` |
| `scripts` | `UnitTestBuild`: 3 invocations | `SuccessIsComplete`, `ReportsOnlyPassedTests`, `CleanReportIsOfOneRun` |
| | `ClangFormatReport`: logs of up to 4 lines | `EveryLineReported`, `NoStaleReport` |
| | `ValgrindReport`: 2 suites, up to 2 errors each | `TableIsExact` |
| | `CoverageComparison`: 3 figures | `VerdictsAreTrue` |
| | `LintRun`: 2 files in 2 directories below a third, 10 configurations for each | `NearestFilterWins`, `FiltersAreRestored`, `ExcludedIsSkipped`, `ReportAgrees` |
| | `FileSelection`: up to 3 options, 5 files and one that is missing | `SelectsWhatWasAsked` |
| | `LintFile`: 1 file of 3 lines, or 2: a first one of 2 lines of few kinds, and then any | `SuppressionIsExact` |
| | `FilePaths`: 3 directories, any checkouts | `OnlyTheCheckoutCounts` |
| | `HeaderGuard`: headers of any length, 2 namespaces | `HouseStylePasses`, `WrongGuardIsReported` |
| `coverage_unread` | `CoverageComparison` | `NothingIsCompared` is violated |
| `lint_text` | `BlockNesting`: 2 blocks in 2 conditionals; or 1 of any kind, with parentheses and assembly | `ImplementsBraceNesting`, `AsmHasOpenParenthesis` |
| | `IncludeState`: 4 lines of 9 headers; or 6 lines of 2, directives in any order | `OrderIsSorted`, `AlphabeticalOrderIsTold`; `RepeatsAreReal`, `RepeatsAreTold` |
| | `IncludeWhatYouUse`: a header of 5 lines, a source file of 4, and one whose name has those of other headers in it | `DemandsAreExact`, `OwnHeaderIsDemanded` |
| | `FunctionLength`: 5 lines | `FunctionsAreKeptApart`, `LongFunctionsAreTold` |
| | `Cleansing`: lines of 5 tokens, any number of them | `CodeIsCleansed`, `StringsAreKept` |
| | `Expressions`: 6 tokens, of all brackets or with operators | `BracketsDecide`, `ArgumentsAreBalanced`, `BackToTheBeginning` |

In `scripts`, `lint_text` and `sessions_live` the properties of a row are combined with those of
related rows into one named property per concern: `ReportsAreExact` (the three
report scripts), `ConfigurationsAreObeyed` (`LintRun`), `NamesAndGuardsAreJudged`
(`FilePaths`, `HeaderGuard`), `IncludesAreJudged` (`IncludeState`,
`IncludeWhatYouUse`), `EndsAreFound` (the assembly of `BlockNesting`,
`FunctionLength`, `Expressions`) and
`EveryCallReturns` (`CallsReturn` of `OpenCdm` and of `ChallengeWait`). Each is the conjunction of the
properties in the table, under the condition that their part is at work; TLC
names the combined one when one of them fails. A cfg file names the combined ones.

`SleepersAreDueAnswers` of `sessions_live` has the types of `ChallengeWait` in it.
`TypeOK` of the backend, the registry, the dispatcher, the sessions, `UnitTestBuild`
and `BlockNesting` is proved, as are the types of `ChallengeWait`, and not checked
in a run as well.
Deadlock is checked where the system goes on: not in `logger`, which ends when
`MaxMessages` have been logged, and not in `scripts`, `coverage_unread` and
`lint_text`, which end with the script or the text.

Bounds. Two threads in `CdmBackend` are needed for one to sleep while another is
inside `IMediaKeys`, and three for `notify_one` to have a choice meanwhile; its
state has no counter. In the registry, four handles on three addresses let one
session be shared by several handles while another is being deleted and its
address reused. In `OpenCdm`, two addresses let a message about one session pass
by another and let an address be reused while messages for its former owner are
on their way; two handles let a session be found by a second thread while it is
being constructed, closed or removed; `MaxKeySessions` bounds the ids given out
(after which Rialto refuses), and `MaxUnasked` the messages on their way when
Rialto sends one it was not asked for; an answer to a request is never held
back by it. Two keys are one that is selected and one that is not. Three
messages let a thread log twice while another one's line is half written, and two
threads meet in a stream while the third writes; `MaxTexts = 1` gives a message a
part that another can come before. `sessions_faulty`
and `scripts` (over the namespaces of headers) use symmetry; runs with
liveness do not. In `ChallengeWait`, two threads can be asleep while a third takes
what one of them was woken for; five challenges are an answer to each of three
requests and two renewals.

The scripts. What an invocation of `build_ut.py` finds was left by earlier ones,
and three let one that fails come between two that succeed with other options.
Two lines of a log below a header, in front of one or between two are the cases
of `createErrorList`. Two files are needed for one to leave something for the
other, and two levels of directories for configurations to contradict each
other. Three options are every order of those that depend on each other. A NOLINT
concerns its line and the next, so three lines have one before and one behind.
Conditionals two deep have a branch within a branch; the blocks they cut must
have one around them. In six lines a header comes back behind four directives: a
branch, a conditional within one, or several branches. Five tokens hold a
string or a comment with something before, in and behind it. Expressions with two
kinds of brackets one in the other, and one wrong, take six. The header guard has
no bound but its namespaces: the loop keeps finitely many things.

Fairness. An IPC ends and a callback returns (weak fairness of `Return`,
`CallbackReturns`). Who waits for a mutex gets it although others keep taking it
(strong fairness of the steps that need one): `std::mutex` does not promise this,
but the threads here hold it for one call at a time and no scheduler starves a
waiter for ever. A deadline that has passed stays passed, and Rialto's thread
takes every message it has been sent. In `ChallengeWait` a thread that is not
asleep gets on, and Rialto answers each request it took. Nothing is assumed about what the
application or Rialto choose to do. `CallsReturn` of `OpenCdm` needs a Rialto
that stays RUNNING and answers requests: `getChallengeData` has no deadline, and
with `MayGoInactive = TRUE` it may wait for ever. `CallsReturn` of `ChallengeWait` makes an
exception for a session that is closed under the call: nobody is woken then.
It also needs callbacks that stay out of the registry: the operator
`CallbackLooksUp` is a callback that calls `opencdm_get_session`, and with it
TLC finds the deadlock with a thread that is deleting a session.

Each checked property is broken by one of the mistaken variants kept next to the
operations (`NotifyStateFirst`, `RemoveTooEarly`, `ClearChallengeOnly`, ...),
which no specification uses; `PROJECT.json` pairs them.

### What came up

* `sessions_leak`: when `generateRequest` fails during construction and the close
  that follows fails too, the session is deleted with its key session alive
  (`open_cdm.cpp:184`), against the comment at `open_cdm.cpp:198`.
* A session destructed without a successful close is still registered while its
  members are destroyed, and a message may be delivered to it then
  (`OpenCDMSessionPrivate.h:87-97`). The model allows this for unclosed
  sessions; `ClosedIsSilent` says it cannot happen to closed ones, and
  `EventsReachObjects` that the memory is not freed under the delivery.
* `coverage_unread`: a statistics file that is missing or malformed counts as 0.0
  per cent and is compared (`process_coverage_stats.py:31`), so that the message
  that it could not be opened is overwritten by a verdict.

Some behaviour of the scripts is not what their comments suggest. The models have
it as the code does, and the properties leave out exactly these cases:

* `process_clang-format_errors.py:74`: a log whose first line is not the header of
  an error ends in an exception, with the old report removed and no new one.
  `NoStaleReport` is about what such a run leaves.
* `cpplint.py:6714`: settings of a `CPPLINT.cfg` (`linelength`, `extensions`,
  `root`, `headers`, `includeorder`) stay for the files that follow, and the
  outermost configuration wins. `NearestFilterWins` is about filters, which are
  reversed and restored.
* `cpplint.py:7051`: what goes wrong with a configuration or with opening a file is
  an error in the JUnit report of a run that exits with 0. `ReportAgrees` is
  about the failures.
* `cpplint.py:1919`: a comment without an end is reported before any NOLINT is read,
  and one line too low; `cpplint.py:4659`: an error about a line that is reported
  from an earlier one is not suppressed; bad characters in a comment of several lines
  are not seen, because the comment is gone by then. `SuppressionIsExact` says
  what holds for errors reported from their line on.
* `cpplint.py:3156`: blocks are changed in place although a comment says they are not;
  the saved stacks are deep copies, and the nesting is right all the same.
* `cpplint.py:5241`, `2544`: an include is taken for the file's own header if its text
  is anywhere in the header's name or has it in it, and so `#include <map>` keeps
  `bitmap.cc` from being told to include `bitmap.h`. `cpplint.py:6170`: `bar.h` is
  opened for the includes of `foobar.cc`. `OwnHeaderIsDemanded` and `DemandsAreExact` are
  about what `cpplint.py` takes for the file's own header; for one it should not
  have taken, they promise nothing.
* `cpplint.py:1185`: an `#else` forgets the includes since the last `#if`, also if
  that has been closed, and those it forgets are demanded again at the end;
  `cpplint.py:1221`: the header a name is compared with is the last one recorded. The
  properties of includes say for which lines that makes no difference.
* `cpplint.py:3706`: the lines of a function are counted from its name on.
* `cpplint.py:1936`: only the first `//` of a line is looked at. If that is in a string, a
  comment behind the string stays in `.lines`, which are said to have none
  (`cpplint.py:1946`). `StringsAreKept` says that it happens then only, and that
  nothing else is lost or left.
* `cpplint.py:1939`: quotes or `//` between `/*` and `*/` are taken for what they are
  not. `CodeIsCleansed` and `StringsAreKept` have comments without either (`BlockTokens`).
  `/*` in a string is a comment for `.lines`, and so `StringsAreKept` is about `plain` lines.
* `cpplint.py:2093`: the `>` of `operator>` closes a template argument list, as the
  word is looked for one character too early.
* `cpplint.py:2407`: a file right in the root of the repository, or in none, ends
  `cpplint.py` with an `IndexError`.
* `cpplint.py:2354`: a guard with two underscores at its end is refused, a namespace
  with its brace on the same line has no guard that is accepted, and a
  comment with the word namespace in it counts as one. `HouseStylePasses` is about
  headers with none of these `habits`.

## What is proved

| Theorem | States |
|---|---|
| `CdmBackendProofs!TypeCorrect`, `RunningMeansMediaKeys`, `NoEarlyRefusal`, `SettledBackendAgrees`, `RunningWakesASleeper` | the safety properties of the backend runs, for any set of threads and either kind of factory |
| `CdmBackendProofs!BackendImplementsGate` | refinement of `MediaKeysGate` |
| `ActiveSessionsProofs!TypeCorrect`, `CountersAreExact` | the counters, for any sessions and any finite set of handles |
| `ActiveSessionsProofs!RegistryImplementsSharedOwnership` | refinement of `SharedOwnership` |
| `MessageDispatcherProofs!TypeCorrect`, `NoCallAfterRemoval`, `EveryClientIsReached` | the dispatcher's two properties, for any clients and messages: the second, that a dispatch ends with all that were registered at its beginning called, each once |
| `ProtectionMetaProofs!AttachedSuffices`, `PatternIsKept`, `NoEmptyKeyPasses`, `TheFormsAgree` | the four properties of `ProtectionMeta`, for any key ids and IV sizes |
| `LoggerProofs!LevelIsKept`, `StreamsAreEmptied`, `LinesAreOwn` | the three properties of `Logger`, for any threads sharing any Loggers, any level, any number and length of messages |
| `OpenCdmProofs!TypeCorrect`, `NoEventIntoFreedMemory`, `ClosedSessionsAreSilent`, `InitializedSessionsListen`, `ChallengesAreOwn`, `GivenSessionsAreInitialized` | the safety properties of `sessions_faulty`, for any threads, sessions, keys and finitely many handles |
| `OpenCdmProofs!ImplementsActiveSessions`, `ImplementsMessageDispatcher` | every behaviour of the composition is one of `ActiveSessions` and of `MessageDispatcher` |
| `OpenCdmProofs!NobodyIsLeftAsleep`, `ChallengesDoNotGoBack` | the safety property and the action property of `ChallengeWait`, for any threads in a session and any number of challenges |
| `ScriptsProofs!BuildsAmongScripts`, `TypeCorrect`, `SuccessMeansComplete`, `ReportsMeanPassedTests`, `CleanMeansOneRun` | the properties of the build, for any number of invocations |
| `ScriptsProofs!EveryReportIsExact` | the three report scripts, for any logs, suites and statistics |
| `ScriptsProofs!EveryConfigurationIsObeyed` | `LintRun`, for any files, directories, configurations and errors |
| `ScriptsProofs!EverySelectionIsAsAsked` | `FileSelection`, for any tree of files, names and options |
| `ScriptsProofs!EverySuppressionIsExact` | `LintFile`, for any files and lines |
| `ScriptsProofs!NamesAndGuardsAreJudgedRight` | `FilePaths` and `HeaderGuard`, for any path and checkouts, and any namespaces and headers |
| `LintTextProofs!TypeCorrect`, `NestingIsThatOfTheCode` | the types, and refinement of `BraceNesting`, for any lines and depths |
| `LintTextProofs!EveryIncludeIsJudged` | the six properties of includes, for any file, headers, names and their spelling, order, directives and number of lines |
| `LintTextProofs!EveryEndIsFound` | the six properties of assembly, functions and expressions, for any lines, triggers, levels and texts |
| `LintTextProofs!EveryLineIsCleansed`, `StringsStayInLines` | what is left of a line in `.elided` and in `.lines`, and the raw string that goes on, for any number of lines of any length |

Assumptions are the named ones of the modules: null values are no threads,
sessions, clients or keys; handles are finitely many; severities are those of
the enumeration; in a tree of files, no file is below another one; a header has a
place in the alphabetical order (a natural number), and a file one of the extensions
and orders that `cpplint.py` knows; the lines and tokens of a text are of the kinds
that the modules list, and bounds are natural numbers. That comments within a line have
no quotes and no `//` (`BlocksAssumption`) is not justified by `cpplint.py`, which goes wrong
with them: it says which lines the two theorems about `Cleansing` are of.

*CdmBackend.* `SettledAgreement` is not inductive: whether `initialize` ends in
Rialto's state depends on what registration returned and on what was notified
since. `Inv` adds `PendingAgreement` (the state the backend is about to have,
that of a notification if there was one and else the returned one, agrees unless
a notification is on its way), `RegistrationOrder` (only a registered client is
notified), `NobodyBeforeReady` (no caller before the constructor ends, which is
why `initialize` need not notify) and `InsideHoldsMutex` (which carries the
refinement). The refinement maps `present` to `mediaKeys` and `inside` to the
threads inside `IMediaKeys`.

*ActiveSessions.* The invariant is that every counter is the cardinality of the
handles to that session, and that the session being deleted has none. Two lemmas
about taking and dropping a handle carry the cardinalities.

*MessageDispatcher.* Clients still to be called are registered, because the set
only changes outside a dispatch, when there are none. In one, those that were called
and those still to be called are the registered ones, without overlap
(`WalkIsOverClients`), so that none is left when the walk ends.

*ProtectionMeta.* What is attached comes from `FromArguments` or `FromUpstream`;
two lemmas say what these guarantee for any structure upstream can leave. That
they agree is shown by reducing both to one explicit record.

*Logger.* For the level: in the stream of a thread that is alone in its Logger
there are only pieces of its message at hand (`InOrder`), because a stream that
nobody is at is empty (`InUse`). For the lines: that stream is exactly the message
so far (`OwnStreams`), no other line holds any of it (`OwnLines`), and the output
ends in a newline whenever the file's mutex is free (`Turns`, `LineInv`), so that
a line joins what is there behind a newline (`LineJoins`).

*OpenCdm.* The invariant has that of the two parts, which their own proofs give
once every step of the composition is shown to be a step of each or a stutter
(`RegistryStep`, `DispatcherStep`), and `SessionInv` about where threads are: who is in
a call has a handle to a session (`InsideHasHandle`), nobody else is in that
session (`OneAtATime`), the session is in the state the place says (`PlacesFit`),
what is registered exists and is initialized (`ClientsAreSessions`), an address that is
free or not yet initialized has nothing of a former owner (`UnusedIsUninitialized`,
`OnlyInitializedHearOrClose`), and ids are not given out twice (`IdsAreGivenOut`).
None of the six properties is inductive without these: `ClosedIsSilent`, for
instance, needs that the thread that clears the members has unregistered before.

*ChallengeWait.* `SleepersAreDueAnswers` is not inductive: a thread may go to sleep
only because its own answer is still due. `WaitingInv` adds that, until the first
challenge is there, no more threads have made their request than answers are
due; after it nobody goes to sleep, and each answer wakes one (`NotifyWakesOne`).
`NeverGoesBack` follows from the challenge that is there being the last that
arrived, until the session is closed.

*Scripts.* The invariant is that of the part at work, and each part has its own:

* The build. What is still to be run is an end of what is wanted, in the order
  of the script (`CommandsInOrder`), so that a command that is wanted and no longer on
  the list has been run with success in this invocation (`CommandsHaveDone`); no
  report is of this invocation before its tests (`ReportsAfterTests`). `Joined`,
  `CommandsAreWanted`, `Popped` and `Advance` carry the order through the list.
* The reports. The errors found so far are made of the lines read so far (`LogInv`); the
  columns of the table are cardinalities of the errors read so far, kind by kind
  (`TableInv`); statistics that have been read are those of their files (`StatsInv`).
* `LintRun`. While the configurations of a file are read, from its directory upwards,
  the filters collected stand in the order of the lines they are from (`Collected`), so
  that those of the nearest line lead for each category; while they are applied, from the
  outermost to the nearest, the nearest line decides, either among those applied or
  because it is still among those collected (`Decided`). Between files, the filters are
  those of the command line again. `ReadingConfigs` says that the entries read are
  those that concern the file, and that none of them excludes it. None of this is in
  `NearestFilterWins`, which speaks of the moment when the file is checked.
* `FileSelection`. The options read so far decide (`AfterOptions`). `_IsParentOrSame`
  compares texts; `Layout` says where each name ends in the text of a path, from which
  follows that, with a separator behind it, a prefix of the text is a parent directory.
* `LintFile`. The suppressions known are those of the lines processed (`FileInv`), and what
  has been reported of a line was reported when its own were known.
* `FilePaths`. The search upwards has found the last checkout it has come by
  (`PathInv`).
* `HeaderGuard`. The variables found so far are those the namespaces call for
  (`VariablesFound`), the first directives and the last are the ones the file has
  (`DirectivesFound`, `EndFound`).

*Includes.* The lists are exact (`ListsAreExact`): the last one has the includes that no
`#else` took away and after which there was no `#if`, the ones before it the others
that no `#else` took away, whatever the code did to the lists on the way. The section
at hand is the highest of those of the includes since the last directive
(`SectionIsHighest`), and the last header is that of the line above if it was recorded
(`LastHeaderIsAbove`). From these, what is reported of the next line is what the
properties want of it. The lemma `EveryStepReads` brings all actions under one form,
`LineRead`: a line, what is reported of it, and what becomes of lists and section. The demands
at the end follow from the lists without any induction (`HeadersFound`).

*BlockNesting.* The outermost open `#else` is a least element, found by
well-founded induction over the natural numbers; `IfKeepsCompiled`,
`ElseKeepsCompiled` and `EndifKeepsCompiled` say that a directive leaves the stack
it saved, or the one at hand, as the compiled one.

*Assembly.* The code counts the parentheses of a block, closing ones that were never
opened as negative, and takes any count but zero for an open one; so does
`AsmHasOpenParenthesis`. That the block on top has an open parenthesis while lines are skipped as
assembly is not inductive, as `#else` and `#endif` bring back stacks that were saved:
`AsmInv` says it of every block of every stack, the saved ones too.

*FunctionLength.* While a function is at hand, no other one begins or ends between its
first line and the one read, and `lines_in_function` is the number of its lines so far
(`AtHand`); while none is, whatever began has ended (`NoneAtHand`).

*Expressions.* The stack says how deep the text is: it has as many brackets as are open,
and the one that is n brackets up is the last bracket of the text that led to depth n
(`Mirrors`, by `Opener`). Angle brackets are pushed, popped and dropped without any
effect on that, which is why `<`, `>` and `;` cannot make a bracket end elsewhere;
that a bracket is at the bottom keeps the stack from running empty before its end.
Backwards, the stack has the closing brackets behind the position that have no opening
one yet (`Reflects`, by `ClosedAt`). The depth falls one at a time (`Falls`), so
that the closing bracket on top is the one that belongs to the opening bracket at hand
(`ClosesTheOpening`). They are of one kind because the search forwards has compared them
(`Matched`), and so the search backwards can stop at the beginning only.

*Cleansing.* A reading of a text (`IsReading`) is two functions of the positions in it:
the state after each token, and what is left of the tokens so far. What a stage has made
of a line is not the line that C++ read, but it is a text that reads to the same result,
and that is the inductive invariant (`CleansingInv`), with a part for each stage:

* while raw strings are replaced, the text ends in the same state, with the same left, or
  in code where the raw string that goes on began (`Opened`). The quotes before a raw
  string pair off as the reading says (`QuotesAgree`), so that the first one which no
  comment hides begins where C++ begins it (`RawStringBegins`), and in it only its own
  end counts (`RawStringEnds`); when none is left to replace, no position of the text is
  in a raw string (`NoRawStringBegins`);
* while strings are collapsed, nothing is in the strings and characters of what has been
  collapsed, and the rest is read from code or a comment on (`CollapsingText`): its first
  quote begins a string or a character, unless it is in a comment, and the next quote
  of that kind ends it;
* once comments are cut at `//`, no position is in such a comment, unless a string
  has `//` in it (`CutText`), and each `/* */` that is removed is a comment of C++
  (`BlocksAreFound`). At last nothing is in any string, character or comment: every
  token is left, and the text is the code (`TextIsLeft`).

For `.lines` strings are not empty, and the invariant is about lines whose strings are
`plain`: `IsCppString` counts an odd number of quotes exactly in a string
(`StringsAreFound`), as a double quote that is a character has single quotes on both sides.

What proving showed about the models. The guards of a CASE in the description of a
header overlapped, so that the checker's choice was one of several; it is a chain of IFs
now, in the order of the code. The tree of files needed to be told that a file has no
files below it and that names are sequences of characters. `Cleansing` was a set of
recursive functions over a line, about which nothing could be proved for all lines; it
is one step for each turn of a loop now, which is also what the code does. That
strings are kept in `.lines` turned out to need more than was thought: a string with
`//` in it, with a block, or two characters between single quotes.

Model-checked only:

* liveness under fairness (`CallsReturn` of the backend, `EveryCallReturns`,
  `SessionsAreFreed`, `NotificationsDelivered`), which is out of the prover's reach.

## Not modelled, and the plan

In the order of the plan:

1. `OpenCdm`, extended: the update of the key status map in two steps against
   `status()` in `get`; two threads that initialize one session at once; the CDM key
   session id and its fallback; `opencdm_destruct_system` with sessions alive.
2. `OpenCdmApi`: argument checks and error codes of the C API as a table of
   functions, checked against the rule that null arguments change nothing.
3. `BlockNesting`, extended: namespace indentation, access specifiers, and
   `InTemplateArgumentList`.

Left out for good: `MediaKeysCapabilitiesBackend` (two stateless queries), the
registration of the GStreamer metadata type, wording and layout of log lines; the
checks of `cpplint.py` that are regular expressions over a line or its neighbours,
more than half of the file, which have no state that a checker could explore, and its
reading of options that only set a variable; build files, workflows and the unit
tests, which were read for what the code promises.
