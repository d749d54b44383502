------------------------------- MODULE Btest -------------------------------
(***************************************************************************)
(* The harness of src/datalab, btest.c: main reads the command line,       *)
(* run_tests goes over the table of decl.c, test_function makes the values *)
(* of every argument, asks for a SIGALRM and compares puzzle and reference *)
(* on them. The signal may arrive before any step and leaves by            *)
(* siglongjmp.                                                             *)
(*                                                                         *)
(* The alarm is never cancelled. One left over from a test that ended in   *)
(* time goes off in a later test, or when the frame envbuf names has       *)
(* returned: C gives that jump no meaning, and here it either ends the     *)
(* program or returns 1 to run_tests once more, which is what the stack of *)
(* the build holds at that place.                                          *)
(***************************************************************************)
EXTENDS Decl, GenVals

CONSTANTS
  TIMEOUT_LIMIT,   \* seconds a test may take if -T does not say (10)
  CommandLines,    \* the options main may be given, in order
  Weights,         \* what rand() / RAND_MAX may be, in tenths, round by round
  MaxTimeouts      \* bound: signals that arrive in one run

(* What getopt_long returns: the letter of an option and its argument, and *)
(* one letter for the ones it does not know. A text given as a number is   *)
(* what strtof or strtoll reads in it.                                     *)
NumText == [float : BOOLEAN, rest : BOOLEAN, val : Int]

Options ==
  [opt : {"g", "h", "?"}]
    \union [opt : {"f"}, arg : STRING]
    \union [opt : {"T", "r"}, arg : Int]
    \union [opt : {"123"}, k : 1 .. 3, arg : NumText]

ASSUME BtestAssumption ==
  /\ TIMEOUT_LIMIT \in Int
  /\ CommandLines \subseteq Seq(Options)
  /\ Weights \subseteq [1 .. TEST_RANGE -> 0 .. 10]
  /\ MaxTimeouts \in Nat

(* gen_vals tries a range whole when max - MAX_TEST_VALS <= min, and would *)
(* write one value too many if the two were equal: no range of decl.c is   *)
(* of that size, 13 * TEST_RANGE + 1 values.                               *)
ASSUME RangesAssumption ==
  \A t \in Tests, k \in 1 .. 3 :
    test_set[t].ranges[k][2] - test_set[t].ranges[k][1] # MAX_TEST_VALS

VARIABLES
  pc,              \* the step the program is at
  line,            \* the command line
  optind,          \* the option getopt returns next
  opt,             \* the write-once globals the options set
  i,               \* the entry of test_set run_tests is at
  arg_test_vals,   \* the values made so far, argument by argument
  a1,              \* the value of the first argument tried next
  verdict,         \* how the test at i ended
  score,           \* points, max_points, errors and rows printed so far
  envbuf,          \* the test whose frame sigsetjmp saved, 0 if none
  alarm,           \* the test whose alarm is pending, 0 if none
  fired,           \* signals that have arrived
  wild             \* some signal jumped into a frame that had returned

testvars == <<arg_test_vals, a1, verdict>>
sigvars == <<envbuf, alarm, fired, wild>>
vars == <<pc, line, optind, opt, i, testvars, score, sigvars>>

Final == {"exit", "usage", "bad argument", "crash"}

Init ==
  /\ pc = "args" /\ line \in CommandLines /\ optind = 1
  /\ opt = [grade |-> FALSE, timeout_limit |-> TIMEOUT_LIMIT,
            test_fname |-> {}, has_arg |-> {}, argval |-> <<0, 0, 0>>,
            global_rating |-> 0]
  /\ i = 1 /\ arg_test_vals = <<>> /\ a1 = 0 /\ verdict = "none"
  /\ score = [points |-> 0, max_points |-> 0, errors |-> 0, rows |-> 0]
  /\ envbuf = 0 /\ alarm = 0 /\ fired = 0 /\ wild = FALSE

(* get_num_val. A text is the number strtof or strtoll reads in it and     *)
(* whether characters are left over, which only a float is refused for. An *)
(* integer is also refused when the option has been given a value other    *)
(* than 0 before: the code tests *valp, not valp.                          *)
Accepted(text, old) ==
  IF text.float THEN ~text.rest
  ELSE old = 0 /\ TMin <= text.val /\ text.val < 2^W

NumVal(text) == text.val % 2^W

(* usage prints the options and exits with status 1.                       *)
Usage == pc' = "usage"

(* The switch of main, one disjunct per group of options. test_fname is    *)
(* NULL, here {}, until -f gives a name, the empty one included.           *)
SetOption(o) ==
  \/ o.opt = "g" /\ opt' = [opt EXCEPT !.grade = TRUE] /\ pc' = pc
  \/ o.opt = "f" /\ opt' = [opt EXCEPT !.test_fname = {o.arg}] /\ pc' = pc
  \/ o.opt = "T" /\ opt' = [opt EXCEPT !.timeout_limit = o.arg] /\ pc' = pc
  \/ /\ o.opt = "r"
     /\ opt' = [opt EXCEPT !.global_rating = o.arg]
     /\ IF o.arg < 0 THEN Usage ELSE pc' = pc
  \/ o.opt \in {"h", "?"} /\ Usage /\ opt' = opt

(* Fault: the case of one option copied from another.                      *)
SetArgumentCopied(k, text) ==
  IF Accepted(text, opt.argval[k])
  THEN /\ opt' = [opt EXCEPT !.has_arg = @ \union {k},
                             !.argval[1] = NumVal(text)]
       /\ pc' = pc
  ELSE opt' = [opt EXCEPT !.has_arg = @ \ {k}] /\ pc' = "bad argument"

SetArgument(k, text) ==
  IF Accepted(text, opt.argval[k])
  THEN /\ opt' = [opt EXCEPT !.has_arg = @ \union {k},
                             !.argval[k] = NumVal(text)]
       /\ pc' = pc
  ELSE /\ opt' = [opt EXCEPT !.has_arg = @ \ {k}]
       /\ pc' = "bad argument"

ParseOption ==
  /\ pc = "args" /\ optind <= Len(line)
  /\ optind' = optind + 1
  /\ LET o == line[optind] IN
       IF o.opt = "123" THEN SetArgument(o.k, o.arg) ELSE SetOption(o)
  /\ UNCHANGED <<line, i, testvars, score, sigvars>>

(* Fault: one alarm for the whole run, asked for before the first test.    *)
EndOptionsArmed ==
  /\ pc = "args" /\ optind > Len(line)
  /\ pc' = "select" /\ alarm' = IF opt.timeout_limit > 0 THEN 1 ELSE 0
  /\ UNCHANGED <<line, optind, opt, i, testvars, score, envbuf, fired, wild>>

(* The handler is installed, if ever, before the first test: nothing can   *)
(* ask for a signal earlier.                                               *)
EndOptions ==
  /\ pc = "args" /\ optind > Len(line)
  /\ pc' = "select"
  /\ UNCHANGED <<line, optind, opt, i, testvars, score, sigvars>>

(* run_tests goes on to the next test the name does not exclude.           *)
Selected(j) == opt.test_fname \subseteq {test_set[j].name}

NextTest(j) ==
  /\ j \in Tests /\ j >= i /\ Selected(j)
  /\ \A k \in i .. j - 1 : ~Selected(k)

StartTest ==
  /\ pc = "select"
  /\ \E j \in Tests : NextTest(j) /\ i' = j
  /\ pc' = "gen" /\ arg_test_vals' = <<>> /\ a1' = 0 /\ verdict' = "none"
  /\ UNCHANGED <<line, optind, opt, score, sigvars>>

EndTests ==
  /\ pc = "select" /\ \A j \in Tests : ~NextTest(j)
  /\ pc' = "exit"
  /\ UNCHANGED <<line, optind, opt, i, testvars, score, sigvars>>

(* One turn of the loop of test_function over the arguments.               *)
ArgVals(k) ==
  LET range == test_set[i].ranges[k]
  IN IF k \in opt.has_arg THEN {<<opt.argval[k]>>}
     ELSE {gen_vals(range[1], range[2], arg_test_range(test_set[i].args), w)
             : w \in Weights}

(* Fault: the loop over the arguments ends one too early.                  *)
GenValsShort ==
  LET k == Len(arg_test_vals) + 1 IN
  /\ pc = "gen"
  /\ \E vals \in ArgVals(k) : arg_test_vals' = Append(arg_test_vals, vals)
  /\ pc' = IF k < test_set[i].args - 1 THEN "gen"
           ELSE IF opt.timeout_limit > 0 THEN "sigsetjmp" ELSE "run"
  /\ a1' = IF pc' = "run" THEN 1 ELSE 0
  /\ UNCHANGED <<line, optind, opt, i, verdict, score, sigvars>>

GenVals ==
  LET k == Len(arg_test_vals) + 1 IN
  /\ pc = "gen"
  /\ \E vals \in ArgVals(k) : arg_test_vals' = Append(arg_test_vals, vals)
  /\ pc' = IF k < test_set[i].args THEN "gen"
           ELSE IF opt.timeout_limit > 0 THEN "sigsetjmp" ELSE "run"
  /\ a1' = IF pc' = "run" THEN 1 ELSE 0
  /\ UNCHANGED <<line, optind, opt, i, verdict, score, sigvars>>

SaveFrame ==
  /\ pc = "sigsetjmp"
  /\ envbuf' = i /\ pc' = "alarm"
  /\ UNCHANGED <<line, optind, opt, i, testvars, score, alarm, fired, wild>>

(* Fault: an alarm that is already pending is left as it is.               *)
SetAlarmOnce ==
  /\ pc = "alarm"
  /\ alarm' = (IF alarm = 0 THEN i ELSE alarm) /\ pc' = "run" /\ a1' = 1
  /\ UNCHANGED <<line, optind, opt, i, arg_test_vals, verdict, score, envbuf,
                 fired, wild>>

(* alarm() replaces whatever alarm is pending.                             *)
SetAlarm ==
  /\ pc = "alarm"
  /\ alarm' = i /\ pc' = "run" /\ a1' = 1
  /\ UNCHANGED <<line, optind, opt, i, arg_test_vals, verdict, score, envbuf,
                 fired, wild>>

(* One turn of the loop over a1, with its inner loops: the puzzles have no *)
(* state, and the first difference ends them all.                          *)
ValuesOf(k) == IF k <= Len(arg_test_vals) THEN ToSet(arg_test_vals[k]) ELSE {0}

Agrees(v) ==
  \A v2 \in ValuesOf(2), v3 \in ValuesOf(3) : Same(test_set[i].name, v, v2, v3)

TestValue ==
  /\ pc = "run" /\ a1 <= Len(arg_test_vals[1])
  /\ IF Agrees(arg_test_vals[1][a1])
     THEN a1' = a1 + 1 /\ UNCHANGED <<pc, verdict>>
     ELSE a1' = a1 /\ verdict' = "mismatch" /\ pc' = "score"
  /\ UNCHANGED <<line, optind, opt, i, arg_test_vals, score, sigvars>>

(* Fault: the index of the loop is reset instead of left at its end.       *)
EndValuesAgain ==
  /\ pc = "run" /\ a1 > Len(arg_test_vals[1])
  /\ a1' = 1
  /\ UNCHANGED <<pc, line, optind, opt, i, arg_test_vals, verdict, score, sigvars>>

EndValues ==
  /\ pc = "run" /\ a1 > Len(arg_test_vals[1])
  /\ verdict' = "passed" /\ pc' = "score"
  /\ UNCHANGED <<line, optind, opt, i, arg_test_vals, a1, score, sigvars>>

(* What run_tests does with the result of a test.                          *)
Rating(j) ==
  IF opt.global_rating # 0 THEN opt.global_rating ELSE test_set[j].rating

(* Fault: only the tests that pass count in the maximum.                   *)
AddResultPassed(s, terrors) ==
  [points |-> s.points + (IF terrors = 0 THEN Rating(i) ELSE 0),
   max_points |-> s.max_points + (IF terrors = 0 THEN Rating(i) ELSE 0),
   errors |-> s.errors + terrors,
   rows |-> s.rows + (IF opt.grade \/ terrors < 1 THEN 1 ELSE 0)]

AddResult(s, terrors) ==
  [points |-> s.points + (IF terrors = 0 THEN Rating(i) ELSE 0),
   max_points |-> s.max_points + Rating(i),
   errors |-> s.errors + terrors,
   rows |-> s.rows + (IF opt.grade \/ terrors < 1 THEN 1 ELSE 0)]

Score ==
  /\ pc = "score"
  /\ score' = AddResult(score, IF verdict = "passed" THEN 0 ELSE 1)
  /\ i' = i + 1 /\ pc' = "select"
  /\ arg_test_vals' = <<>> /\ a1' = 0 /\ verdict' = "none"
  /\ UNCHANGED <<line, optind, opt, sigvars>>

(* SIGALRM while the frame that envbuf names is there: the test ends with  *)
(* one error, whichever test asked for the signal.                         *)
FrameIsLive == envbuf = i /\ pc \in {"alarm", "run"}

Deliver ==
  /\ alarm # 0 /\ fired < MaxTimeouts
  /\ alarm' = 0 /\ fired' = fired + 1
  /\ UNCHANGED <<line, optind, opt, arg_test_vals, a1, score, envbuf>>

Timeout ==
  /\ Deliver /\ FrameIsLive
  /\ verdict' = "timeout" /\ pc' = "score"
  /\ UNCHANGED <<i, wild>>

(* SIGALRM when it is not: the call of test_function that run_tests made   *)
(* last returns with one error, maybe for the second time.                 *)
StrayTimeout ==
  /\ Deliver /\ ~FrameIsLive /\ pc \notin Final
  /\ wild' = TRUE
  /\ \/ pc' = "crash" /\ verdict' = "none" /\ i' = i
     \/ /\ pc' = "score" /\ verdict' = "timeout"
        /\ i' = IF pc = "select" THEN i - 1 ELSE i

Step ==
  \/ ParseOption \/ EndOptions \/ StartTest \/ EndTests
  \/ GenVals \/ SaveFrame \/ SetAlarm \/ TestValue \/ EndValues \/ Score

Done == pc \in Final /\ UNCHANGED vars

Next == Step \/ Timeout \/ StrayTimeout \/ Done

(* The program never blocks: as long as it has not ended it takes another  *)
(* step. It can, in every such state, so this is WF_vars(Step) with the    *)
(* guard of Step written out.                                              *)
Progress == []<>(pc \in Final) \/ []<><<Step>>_vars

Spec == Init /\ [][Next]_vars /\ Progress
-----------------------------------------------------------------------------
(* The variables hold what the code keeps in them, and a test that runs    *)
(* has values for every argument of its puzzle.                            *)
TypeOK ==
  /\ pc \in {"args", "select", "gen", "sigsetjmp", "alarm", "run", "score"}
             \union Final
  /\ optind \in Nat /\ i \in 1 .. Len(test_set) + 1
  /\ opt.has_arg \subseteq 1 .. 3 /\ opt.timeout_limit \in Int
  /\ a1 \in Nat
  /\ pc \notin {"gen", "sigsetjmp", "alarm", "run", "score"} \/ i \in Tests
  /\ pc \in {"sigsetjmp", "alarm", "run"} =>
       Len(arg_test_vals) = test_set[i].args
  /\ verdict \in {"none", "passed", "mismatch", "timeout"}
  /\ pc = "score" <=> verdict # "none"
  /\ envbuf \in 0 .. i /\ alarm \in 0 .. i /\ fired \in 0 .. MaxTimeouts
  /\ wild \in BOOLEAN

(* No puzzle of bits.c differs from its reference on the values btest      *)
(* makes, nor on any value given with -1, -2 and -3 that its comment       *)
(* allows, except floatPower2 where the power is a denormalized float.     *)
DenormalPower(v) == 1 - Bias - FR <= v /\ v <= -Bias

GivenOutside(k) ==
  LET range == test_set[i].ranges[k]
      v == Signed(ToWord(opt.argval[k]))
  IN k \in opt.has_arg /\ range # FLT /\ (v < range[1] \/ v > range[2])

OnlyDenormalPowersFail ==
  verdict = "mismatch" =>
    \/ \E k \in 1 .. test_set[i].args : GivenOutside(k)
    \/ /\ test_set[i].name = "floatPower2" /\ 1 \in opt.has_arg
       /\ DenormalPower(Signed(ToWord(opt.argval[1])))

(* gen_vals never writes past arg_test_vals[k], whose size MAX_TEST_VALS   *)
(* is fixed by the comment of btest.c on line 44.                          *)
WithinArrays ==
  \A k \in 1 .. Len(arg_test_vals) : Len(arg_test_vals[k]) <= MAX_TEST_VALS

(* PartialSums(value)[n] is the sum of the first n values of a sequence.   *)
PartialSums(value) ==
  LET sum[j \in 0 .. Len(value)] == IF j = 0 THEN 0 ELSE sum[j - 1] + value[j]
  IN  sum

(* What every entry of the table adds to the maximum.                      *)
RatingsSelected == [j \in Tests |-> IF Selected(j) THEN Rating(j) ELSE 0]

(* The totals are those of the tests gone over: every selected one once,   *)
(* all the points exactly when nothing failed, and with -g one row each,   *)
(* which is what driver.pl reads.                                          *)
ScoreAddsUp ==
  ~wild /\ pc \notin {"args", "usage", "bad argument"} =>
    LET done == Cardinality({j \in 1 .. i - 1 : Selected(j)}) IN
    /\ score.max_points = PartialSums(RatingsSelected)[i - 1]
    /\ score.points = score.max_points <=> score.errors = 0
    /\ score.rows = IF opt.grade THEN done ELSE done - score.errors

(* While a puzzle runs under a limit, the alarm that is pending and the    *)
(* frame the handler will jump to are those of its own test.               *)
RunsUnderOwnAlarm ==
  pc = "run" /\ opt.timeout_limit > 0 => alarm = i /\ envbuf = i

(* Every value the options give is used, the last one when an option is    *)
(* repeated; a value is refused only if it is no word, or no float, or the *)
(* option was given before.                                                *)
Given(k, n) == {j \in 1 .. n : line[j].opt = "123" /\ line[j].k = k}

ArgumentsTaken ==
  /\ pc \notin {"args", "usage", "bad argument"} =>
       \A k \in 1 .. 3 :
         IF Given(k, Len(line)) = {} THEN k \notin opt.has_arg
         ELSE /\ k \in opt.has_arg
              /\ opt.argval[k] = NumVal(line[Max(Given(k, Len(line)))].arg)
  /\ pc = "bad argument" =>
       LET o == line[optind - 1] IN
         \/ Given(o.k, optind - 2) # {}
         \/ o.arg.float /\ o.arg.rest
         \/ ~o.arg.float /\ ~(TMin <= o.arg.val /\ o.arg.val < 2^W)

(* Until a first test has been run no signal arrives: the first test is    *)
(* never reported as timed out before it runs.                             *)
FirstTestFair ==
  [][fired' > fired /\ pc \in {"gen", "sigsetjmp", "alarm"} =>
       \E j \in 1 .. i - 1 : Selected(j)]_vars

(* The program ends, whatever the options and the signals.                 *)
Terminates == <>(pc \in Final)
=============================================================================
