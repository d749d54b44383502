---------------------------- MODULE Btest_proofs ----------------------------
(***************************************************************************)
(* Proofs about Btest: the options are read as given, no test runs under   *)
(* the alarm of another, the values tried fit in their arrays and the      *)
(* totals are those of the tests gone over, for any command line, word,    *)
(* limit and number of signals.                                            *)
(***************************************************************************)
EXTENDS Btest, TLAPS, FiniteSetTheorems, WellFoundedInduction

LEMMA Table ==
  /\ Tests = 1 .. 26
  /\ Len(test_set) = 26
  /\ \A t \in Tests : test_set[t].args \in 1 .. 3
<1>1. Len(test_set) = 26
  BY DEF test_set
<1>2. Tests = 1 .. 26
  BY <1>1 DEF Tests
<1>3. ASSUME NEW t \in 1 .. 26 PROVE test_set[t].args \in 1 .. 3
  <2>1. \/ t = 1 \/ t = 2 \/ t = 3 \/ t = 4 \/ t = 5 \/ t = 6 \/ t = 7
        \/ t = 8 \/ t = 9 \/ t = 10 \/ t = 11 \/ t = 12 \/ t = 13 \/ t = 14
        \/ t = 15 \/ t = 16 \/ t = 17 \/ t = 18 \/ t = 19 \/ t = 20 \/ t = 21
        \/ t = 22 \/ t = 23 \/ t = 24 \/ t = 25 \/ t = 26
    OBVIOUS
  <2>2. QED
    BY <2>1 DEF test_set, Row
<1>4. QED
  BY <1>1, <1>2, <1>3

(* The options main can be given, by their letter.                         *)
LEMMA OptionTypes ==
  ASSUME NEW o \in Options
  PROVE  /\ o.opt \in {"g", "h", "?", "f", "T", "r", "123"}
         /\ o.opt = "f" => o.arg \in STRING
         /\ o.opt \in {"T", "r"} => o.arg \in Int
         /\ o.opt = "123" => o.k \in 1 .. 3 /\ o.arg \in NumText
BY DEF Options

(* The values an option -1, -2 or -3 may leave, and the lists test_function*)
(* may make of the values of an argument.                                  *)
ArgVal == {0} \union {NumVal(text) : text \in NumText}

Made ==
  {<<v>> : v \in ArgVal}
    \union {gen_vals(test_set[t].ranges[k][1], test_set[t].ranges[k][2],
                     arg_test_range(test_set[t].args), w)
               : t \in Tests, k \in 1 .. 3, w \in Weights}

OptType ==
  [grade : BOOLEAN, timeout_limit : Int, test_fname : SUBSET STRING,
   has_arg : SUBSET (1 .. 3), argval : [1 .. 3 -> ArgVal],
   global_rating : Int]

Running == {"gen", "sigsetjmp", "alarm", "run", "score"}

(* The types TypeOK leaves out.                                            *)
Typed ==
  /\ line \in Seq(Options) /\ opt \in OptType
  /\ arg_test_vals \in Seq(Made)
  /\ pc = "gen" => Len(arg_test_vals) < test_set[i].args

(* What has been read of the command line is what the options hold.        *)
Taken(n) ==
  \A k \in 1 .. 3 :
    IF Given(k, n) = {} THEN k \notin opt.has_arg /\ opt.argval[k] = 0
    ELSE /\ k \in opt.has_arg
         /\ opt.argval[k] = NumVal(line[Max(Given(k, n))].arg)

Reading ==
  /\ pc = "args" => optind \in 1 .. Len(line) + 1 /\ Taken(optind - 1)
  /\ pc \notin {"args", "usage", "bad argument"} => Taken(Len(line))

(* Whose alarm may be pending: none before the first test, and between two *)
(* tests that of a test gone over.                                         *)
Pending ==
  /\ pc = "args" => i = 1 /\ envbuf = 0 /\ alarm = 0
  /\ pc = "select" => /\ envbuf < i /\ alarm < i
                      /\ alarm # 0 => Selected(i - 1)
  /\ pc \in Running => Selected(i)
  /\ pc \in {"gen", "sigsetjmp", "alarm"} /\ alarm # 0 =>
       \E j \in 1 .. i - 1 : Selected(j)
  /\ pc = "alarm" => envbuf = i

IInv ==
  /\ TypeOK /\ Typed
  /\ Reading /\ ArgumentsTaken
  /\ Pending /\ RunsUnderOwnAlarm

-----------------------------------------------------------------------------
(* The occurrences of an option, one more option read.                     *)
LEMMA GivenNext ==
  ASSUME NEW k, NEW n \in Nat
  PROVE  Given(k, n + 1) =
           IF line[n + 1].opt = "123" /\ line[n + 1].k = k
           THEN Given(k, n) \union {n + 1} ELSE Given(k, n)
<1>1. 1 .. n + 1 = (1 .. n) \union {n + 1}
  OBVIOUS
<1>2. QED
  BY <1>1 DEF Given

LEMMA MaxOfMore ==
  ASSUME NEW n \in Nat, NEW T \in SUBSET (1 .. n)
  PROVE  Max(T \union {n + 1}) = n + 1
<1> DEFINE U == T \union {n + 1}
<1>1. \A y \in U : n + 1 >= y
  OBVIOUS
<1>2. \E x \in U : \A y \in U : x >= y
  BY <1>1
<1>3. Max(U) \in U /\ \A y \in U : Max(U) >= y
  BY <1>2 DEF Max
<1>4. Max(U) >= n + 1
  BY <1>3
<1>5. \A y \in U : y \in Int /\ (y >= n + 1 => y = n + 1)
  OBVIOUS
<1>6. QED
  <2> HIDE DEF U
  <2>1. Max(U) = n + 1
    BY <1>3, <1>4, <1>5
  <2> QED
    BY <2>1 DEF U

LEMMA GivenPrime ==
  ASSUME line' = line
  PROVE  \A k, n : Given(k, n)' = Given(k, n)
BY DEF Given

LEMMA TakenPrime ==
  ASSUME line' = line, opt' = opt, NEW n, Taken(n)
  PROVE  Taken(n)'
BY GivenPrime DEF Taken, Given

LEMMA SelectedPrime ==
  ASSUME opt' = opt
  PROVE  \A j : Selected(j)' <=> Selected(j)
BY DEF Selected

-----------------------------------------------------------------------------
LEMMA InitInv == Init => IInv
<1> SUFFICES ASSUME Init PROVE IInv
  OBVIOUS
<1> USE DEF Init
<1>1. TypeOK
  <2>1. TIMEOUT_LIMIT \in Int /\ MaxTimeouts \in Nat
    BY BtestAssumption
  <2>2. opt.has_arg \subseteq 1 .. 3 /\ opt.timeout_limit \in Int
    BY <2>1
  <2>3. i \in 1 .. Len(test_set) + 1 /\ envbuf \in 0 .. i /\ alarm \in 0 .. i
    BY Table
  <2>4. /\ pc = "args" /\ optind = 1 /\ a1 = 0 /\ verdict = "none"
        /\ fired \in 0 .. MaxTimeouts /\ wild = FALSE
    BY <2>1
  <2>5. QED
    <3> HIDE DEF Init
    <3> QED
      BY <2>2, <2>3, <2>4 DEF TypeOK, Final
<1>2. Typed
  <2>1. <<0, 0, 0>> \in [1 .. 3 -> ArgVal]
    BY DEF ArgVal
  <2>0. TIMEOUT_LIMIT \in Int
    BY BtestAssumption
  <2>2. opt \in OptType
    BY <2>0, <2>1 DEF OptType
  <2>3. QED
    BY <2>2, BtestAssumption DEF Typed
<1>3. Reading
  <2>1. \A k \in 1 .. 3 : Given(k, 0) = {}
    BY DEF Given
  <2>2. Taken(0)
    BY <2>1 DEF Taken
  <2>3. line \in Seq(Options)
    BY BtestAssumption
  <2>4. Len(line) \in Nat
    BY <2>3
  <2>5. QED
    BY <2>2, <2>4 DEF Reading
<1>4. ArgumentsTaken
  BY DEF ArgumentsTaken
<1>5. Pending
  BY DEF Pending, Running
<1>6. RunsUnderOwnAlarm
  BY DEF RunsUnderOwnAlarm
<1>7. QED
  BY <1>1, <1>2, <1>3, <1>4, <1>5, <1>6 DEF IInv

(* The options: each leaves pc at "args" or ends the program.              *)
LEMMA SetOptionTypes ==
  ASSUME IInv, NEW o \in Options, o.opt # "123", pc = "args", SetOption(o)
  PROVE  /\ opt' \in OptType /\ pc' \in {"args", "usage"}
         /\ opt'.has_arg = opt.has_arg /\ opt'.argval = opt.argval
<1>1. opt \in OptType
  BY DEF IInv, Typed
<1>2. CASE o.opt = "g"
  BY <1>1, <1>2 DEF SetOption, Usage, OptType
<1>3. CASE o.opt = "f"
  BY <1>1, <1>3, OptionTypes DEF SetOption, Usage, OptType
<1>4. CASE o.opt = "T"
  BY <1>1, <1>4, OptionTypes DEF SetOption, Usage, OptType
<1>5. CASE o.opt = "r"
  BY <1>1, <1>5, OptionTypes DEF SetOption, Usage, OptType
<1>6. CASE o.opt \in {"h", "?"}
  BY <1>1, <1>6 DEF SetOption, Usage
<1>7. QED
  BY <1>2, <1>3, <1>4, <1>5, <1>6, OptionTypes

LEMMA SetArgumentTypes ==
  ASSUME IInv, NEW k \in 1 .. 3, NEW text \in NumText, pc = "args",
         SetArgument(k, text)
  PROVE  /\ opt' \in OptType /\ pc' \in {"args", "bad argument"}
         /\ pc' = "args" =>
              /\ k \in opt'.has_arg /\ opt'.argval[k] = NumVal(text)
              /\ \A j \in (1 .. 3) \ {k} :
                   /\ j \in opt'.has_arg <=> j \in opt.has_arg
                   /\ opt'.argval[j] = opt.argval[j]
         /\ pc' = "bad argument" => ~Accepted(text, opt.argval[k])
<1>1. opt \in OptType
  BY DEF IInv, Typed
<1>2. NumVal(text) \in ArgVal
  BY DEF ArgVal
<1>3. CASE Accepted(text, opt.argval[k])
  <2>1. /\ opt' = [opt EXCEPT !.has_arg = @ \union {k}, !.argval[k] = NumVal(text)]
        /\ pc' = "args"
    BY <1>3 DEF SetArgument
  <2>2. opt' \in OptType
    BY <1>1, <1>2, <2>1 DEF OptType
  <2>3. /\ opt'.has_arg = opt.has_arg \union {k}
        /\ opt'.argval = [opt.argval EXCEPT ![k] = NumVal(text)]
    BY <1>1, <2>1 DEF OptType
  <2>4. opt.argval \in [1 .. 3 -> ArgVal]
    BY <1>1 DEF OptType
  <2>5. QED
    BY <2>1, <2>2, <2>3, <2>4
<1>4. CASE ~Accepted(text, opt.argval[k])
  BY <1>1, <1>4 DEF SetArgument, OptType
<1>5. QED
  BY <1>3, <1>4

(* The part of the invariant an option leaves alone.                       *)
LEMMA OptionsKeepRest ==
  ASSUME IInv, pc = "args", i = 1, envbuf = 0, alarm = 0,
         opt' \in OptType, pc' \in {"args", "usage", "bad argument"},
         optind' \in Nat,
         UNCHANGED <<line, i, testvars, score, sigvars>>,
         ArgumentsTaken', Reading'
  PROVE  IInv'
<1>1. /\ arg_test_vals' = arg_test_vals /\ a1' = a1 /\ verdict' = verdict
      /\ i' = i /\ envbuf' = envbuf /\ alarm' = alarm /\ fired' = fired
      /\ wild' = wild
  BY DEF testvars, sigvars
<1>2. opt'.has_arg \subseteq 1 .. 3 /\ opt'.timeout_limit \in Int
  BY DEF OptType
<1>3. TypeOK'
  BY <1>1, <1>2 DEF IInv, TypeOK, Final
<1>4. Typed'
  BY <1>1 DEF IInv, Typed
<1>5. Pending'
  BY <1>1 DEF Pending, Running
<1>6. RunsUnderOwnAlarm'
  BY DEF RunsUnderOwnAlarm
<1>7. QED
  BY <1>3, <1>4, <1>5, <1>6 DEF IInv

-----------------------------------------------------------------------------
(* main reads one option more.                                             *)
LEMMA ParseOptionInv == IInv /\ ParseOption => IInv'
<1> SUFFICES ASSUME IInv, ParseOption PROVE IInv'
  OBVIOUS
<1> DEFINE o == line[optind]
<1>1. /\ pc = "args" /\ optind \in Nat /\ optind <= Len(line)
      /\ line \in Seq(Options) /\ optind' = optind + 1
      /\ IF o.opt = "123" THEN SetArgument(o.k, o.arg) ELSE SetOption(o)
      /\ UNCHANGED <<line, i, testvars, score, sigvars>>
  BY DEF ParseOption, IInv, TypeOK, Typed
<1>2. Taken(optind - 1) /\ optind \in 1 .. Len(line)
  BY <1>1 DEF IInv, Reading
<1>3. o \in Options
  BY <1>1, <1>2
<1>4. i = 1 /\ envbuf = 0 /\ alarm = 0
  BY <1>1 DEF IInv, Pending
<1>5. ASSUME NEW k \in 1 .. 3
      PROVE  Given(k, optind - 1)' =
               IF o.opt = "123" /\ o.k = k THEN Given(k, optind - 1) \union {optind}
               ELSE Given(k, optind - 1)
  <2>1. optind - 1 \in Nat /\ optind - 1 + 1 = optind
    BY <1>2
  <2>2. Given(k, optind) =
          IF o.opt = "123" /\ o.k = k THEN Given(k, optind - 1) \union {optind}
          ELSE Given(k, optind - 1)
    BY <2>1, GivenNext
  <2>3. Given(k, optind - 1)' = Given(k, optind)
    <3>1. optind' - 1 = optind /\ line' = line
      BY <1>1, <1>2
    <3>2. QED
      BY <3>1 DEF Given
  <2>4. QED
    BY <2>2, <2>3
<1>6. optind' \in Nat /\ optind' \in 1 .. Len(line') + 1 /\ line' = line
  BY <1>1, <1>2
<1>7. CASE o.opt # "123"
  <2>1. /\ opt' \in OptType /\ pc' \in {"args", "usage"}
        /\ opt'.has_arg = opt.has_arg /\ opt'.argval = opt.argval
    BY <1>1, <1>3, <1>7, SetOptionTypes
  <2>2. \A k \in 1 .. 3 : Given(k, optind - 1)' = Given(k, optind - 1)
    BY <1>5, <1>7
  <2>3. Taken(optind - 1)'
    BY <1>2, <1>6, <2>1, <2>2 DEF Taken
  <2>4. ArgumentsTaken' /\ Reading'
    BY <1>6, <2>1, <2>3 DEF ArgumentsTaken, Reading
  <2>5. QED
    BY <1>1, <1>4, <1>6, <2>1, <2>4, OptionsKeepRest
<1>8. CASE o.opt = "123"
  <2>1. o.k \in 1 .. 3 /\ o.arg \in NumText
    BY <1>3, <1>8, OptionTypes
  <2>2. SetArgument(o.k, o.arg)
    BY <1>1, <1>8
  <2>3. /\ opt' \in OptType /\ pc' \in {"args", "bad argument"}
        /\ pc' = "args" =>
             /\ o.k \in opt'.has_arg /\ opt'.argval[o.k] = NumVal(o.arg)
             /\ \A j \in (1 .. 3) \ {o.k} :
                  /\ j \in opt'.has_arg <=> j \in opt.has_arg
                  /\ opt'.argval[j] = opt.argval[j]
        /\ pc' = "bad argument" => ~Accepted(o.arg, opt.argval[o.k])
    BY <1>1, <2>1, <2>2, SetArgumentTypes
  <2>4. pc' = "args" => Taken(optind - 1)'
    <3>1. SUFFICES ASSUME pc' = "args", NEW k \in 1 .. 3
                   PROVE  IF Given(k, optind - 1)' = {}
                          THEN k \notin opt'.has_arg /\ opt'.argval[k] = 0
                          ELSE /\ k \in opt'.has_arg
                               /\ opt'.argval[k] =
                                    NumVal(line[Max(Given(k, optind - 1)')].arg)
      BY <1>6 DEF Taken
    <3>2. CASE k = o.k
      <4>1. Given(k, optind - 1)' = Given(k, optind - 1) \union {optind}
        BY <1>5, <1>8, <3>2
      <4>2. Max(Given(k, optind - 1)') = optind
        <5>1. optind - 1 \in Nat /\ optind - 1 + 1 = optind
          BY <1>2
        <5>2. Given(k, optind - 1) \in SUBSET (1 .. optind - 1)
          BY DEF Given
        <5>3. QED
          BY <4>1, <5>1, <5>2, MaxOfMore
      <4>3. QED
        BY <2>3, <3>1, <3>2, <4>1, <4>2
    <3>3. CASE k # o.k
      <4>1. Given(k, optind - 1)' = Given(k, optind - 1)
        BY <1>5, <3>3
      <4>2. /\ k \in opt'.has_arg <=> k \in opt.has_arg
            /\ opt'.argval[k] = opt.argval[k]
        BY <2>3, <3>1, <3>3
      <4>3. QED
        BY <1>2, <4>1, <4>2 DEF Taken
    <3>4. QED
      BY <3>2, <3>3
  <2>5. Reading'
    BY <1>6, <2>3, <2>4 DEF Reading
  <2>6. ArgumentsTaken'
    <3>1. optind' - 1 = optind /\ optind' - 2 = optind - 1
      BY <1>1, <1>2
    <3>2. \A k \in 1 .. 3 : Given(k, optind - 2)' = Given(k, optind - 1)
      BY <1>6, <3>1 DEF Given
    <3>3. opt.argval[o.k] # 0 => Given(o.k, optind - 1) # {}
      BY <1>2, <2>1 DEF Taken
    <3>4. ASSUME pc' = "bad argument"
          PROVE  \/ Given(o.k, optind - 1) # {}
                 \/ o.arg.float /\ o.arg.rest
                 \/ ~o.arg.float /\ ~(TMin <= o.arg.val /\ o.arg.val < 2^W)
      BY <2>3, <3>3, <3>4 DEF Accepted
    <3>5. line'[optind' - 1] = o
      BY <1>6, <3>1
    <3>6. QED
      BY <2>1, <2>3, <3>2, <3>4, <3>5 DEF ArgumentsTaken
  <2>7. QED
    BY <1>1, <1>4, <1>6, <2>3, <2>5, <2>6, OptionsKeepRest
<1>9. QED
  BY <1>7, <1>8

-----------------------------------------------------------------------------
(* After the options nothing changes what they hold.                       *)
LEMMA ReadingKept ==
  ASSUME IInv, UNCHANGED <<line, optind, opt>>,
         pc \notin {"args", "usage", "bad argument"},
         pc' \notin {"args", "usage", "bad argument"}
  PROVE  Reading' /\ ArgumentsTaken'
<1>1. line' = line /\ opt' = opt /\ optind' = optind
  OBVIOUS
<1>2. Taken(Len(line))
  BY DEF IInv, Reading
<1>3. \A k \in 1 .. 3 : Given(k, Len(line))' = Given(k, Len(line))
  BY <1>1 DEF Given
<1>4. Taken(Len(line))'
  BY <1>1, <1>2, <1>3 DEF Taken
<1>5. Reading'
  BY <1>4 DEF Reading
<1>6. ArgumentsTaken'
  BY <1>1, <1>4 DEF ArgumentsTaken, Taken
<1>7. QED
  BY <1>5, <1>6

LEMMA EndOptionsInv == IInv /\ EndOptions => IInv'
<1> SUFFICES ASSUME IInv, EndOptions PROVE IInv'
  OBVIOUS
<1>1. /\ pc = "args" /\ optind > Len(line) /\ pc' = "select"
      /\ UNCHANGED <<line, optind, opt, i, testvars, score, sigvars>>
  BY DEF EndOptions
<1>2. /\ line' = line /\ optind' = optind /\ opt' = opt /\ i' = i
      /\ arg_test_vals' = arg_test_vals /\ a1' = a1 /\ verdict' = verdict
      /\ envbuf' = envbuf /\ alarm' = alarm /\ fired' = fired /\ wild' = wild
  BY <1>1 DEF testvars, sigvars
<1>3. Taken(Len(line))
  <2>1. line \in Seq(Options)
    BY DEF IInv, Typed
  <2>2. Len(line) \in Nat
    BY <2>1
  <2>3. optind \in 1 .. Len(line) + 1 /\ Taken(optind - 1)
    BY <1>1 DEF IInv, Reading
  <2>4. optind - 1 = Len(line)
    BY <1>1, <2>2, <2>3
  <2>5. QED
    BY <2>3, <2>4
<1>4. Taken(Len(line))'
  <2>1. \A k \in 1 .. 3 : Given(k, Len(line))' = Given(k, Len(line))
    BY <1>2 DEF Given
  <2>2. QED
    BY <1>2, <1>3, <2>1 DEF Taken
<1>5. Reading' /\ ArgumentsTaken'
  BY <1>1, <1>2, <1>4 DEF Reading, ArgumentsTaken, Taken
<1>6. TypeOK' /\ Typed'
  BY <1>1, <1>2 DEF IInv, TypeOK, Typed, Final
<1>7. i = 1 /\ envbuf = 0 /\ alarm = 0
  BY <1>1 DEF IInv, Pending
<1>8. Pending' /\ RunsUnderOwnAlarm'
  BY <1>1, <1>2, <1>7 DEF Pending, Running, RunsUnderOwnAlarm
<1>9. QED
  BY <1>5, <1>6, <1>8 DEF IInv

(* An alarm still pending when a test begins is that of a test before it.  *)
LEMMA StartTestInv == IInv /\ StartTest => IInv'
<1> SUFFICES ASSUME IInv, StartTest PROVE IInv'
  OBVIOUS
<1>1. PICK j \in Tests : NextTest(j) /\ i' = j
  BY DEF StartTest
<1>2. /\ pc = "select" /\ pc' = "gen" /\ arg_test_vals' = <<>> /\ a1' = 0
      /\ verdict' = "none" /\ line' = line /\ optind' = optind /\ opt' = opt
      /\ envbuf' = envbuf /\ alarm' = alarm /\ fired' = fired /\ wild' = wild
  BY DEF StartTest, sigvars
<1>3. /\ i \in 1 .. 27 /\ j \in 1 .. 26 /\ j >= i /\ Selected(j)
      /\ envbuf \in 0 .. i /\ alarm \in 0 .. i
  BY <1>1, Table DEF IInv, TypeOK, NextTest
<1>4. envbuf < i /\ alarm < i /\ (alarm # 0 => Selected(i - 1))
  BY <1>2 DEF IInv, Pending
<1>5. TypeOK'
  <2>1. envbuf' \in 0 .. i' /\ alarm' \in 0 .. i' /\ i' \in 1 .. 27 /\ i' \in Tests
    BY <1>1, <1>2, <1>3
  <2>2. /\ optind \in Nat /\ opt.has_arg \subseteq 1 .. 3
        /\ opt.timeout_limit \in Int
        /\ fired \in 0 .. MaxTimeouts /\ wild \in BOOLEAN
    BY DEF IInv, TypeOK
  <2>3. /\ optind' \in Nat /\ opt'.has_arg \subseteq 1 .. 3
        /\ opt'.timeout_limit \in Int /\ a1' \in Nat
        /\ fired' \in 0 .. MaxTimeouts /\ wild' \in BOOLEAN
    BY <1>2, <2>2
  <2>4. i' \in 1 .. Len(test_set) + 1
    BY <2>1, Table
  <2>5. QED
    BY <1>2, <2>1, <2>3, <2>4 DEF TypeOK, Final
<1>6. Typed'
  <2>1. test_set[i'].args \in 1 .. 3
    BY <1>1, Table
  <2>2. arg_test_vals' \in Seq(Made) /\ Len(arg_test_vals') = 0
    BY <1>2
  <2>3. QED
    BY <1>2, <2>1, <2>2 DEF IInv, Typed
<1>7. \A n : Selected(n)' <=> Selected(n)
  BY <1>2 DEF Selected
<1>8. Pending'
  <2>1. Selected(i)'
    BY <1>1, <1>2, <1>3 DEF Selected
  <2>2. ASSUME alarm' # 0 PROVE \E n \in 1 .. i' - 1 : Selected(n)'
    <3>1. i - 1 \in 1 .. i' - 1 /\ Selected(i - 1)
      BY <1>1, <1>2, <1>3, <1>4, <2>2
    <3>2. QED
      BY <1>7, <3>1
  <2>3. QED
    BY <1>2, <2>1, <2>2 DEF Pending
<1>9. Reading' /\ ArgumentsTaken'
  BY <1>2, ReadingKept
<1>10. RunsUnderOwnAlarm'
  BY <1>2 DEF RunsUnderOwnAlarm
<1>11. QED
  BY <1>5, <1>6, <1>8, <1>9, <1>10 DEF IInv

LEMMA EndTestsInv == IInv /\ EndTests => IInv'
<1> SUFFICES ASSUME IInv, EndTests PROVE IInv'
  OBVIOUS
<1>1. /\ pc = "select" /\ pc' = "exit" /\ line' = line /\ optind' = optind
      /\ opt' = opt /\ i' = i /\ arg_test_vals' = arg_test_vals /\ a1' = a1
      /\ verdict' = verdict /\ envbuf' = envbuf /\ alarm' = alarm
      /\ fired' = fired /\ wild' = wild
  BY DEF EndTests, testvars, sigvars
<1>2. TypeOK' /\ Typed'
  BY <1>1 DEF IInv, TypeOK, Typed, Final
<1>3. Pending' /\ RunsUnderOwnAlarm'
  BY <1>1 DEF Pending, Running, RunsUnderOwnAlarm
<1>4. Reading' /\ ArgumentsTaken'
  BY <1>1, ReadingKept
<1>5. QED
  BY <1>2, <1>3, <1>4 DEF IInv

-----------------------------------------------------------------------------
(* The values of one argument more: they are as many as the puzzle takes   *)
(* when the test goes on.                                                  *)
LEMMA GenValsInv == IInv /\ GenVals => IInv'
<1> SUFFICES ASSUME IInv, GenVals PROVE IInv'
  OBVIOUS
<1> DEFINE n == Len(arg_test_vals)
<1>1. PICK vals \in ArgVals(n + 1) : arg_test_vals' = Append(arg_test_vals, vals)
  BY DEF GenVals
<1>2. /\ pc = "gen"
      /\ pc' = IF n + 1 < test_set[i].args THEN "gen"
               ELSE IF opt.timeout_limit > 0 THEN "sigsetjmp" ELSE "run"
      /\ a1' = IF pc' = "run" THEN 1 ELSE 0
      /\ line' = line /\ optind' = optind /\ opt' = opt /\ i' = i
      /\ verdict' = verdict /\ envbuf' = envbuf /\ alarm' = alarm
      /\ fired' = fired /\ wild' = wild
  BY DEF GenVals, sigvars
<1>3. i \in Tests /\ test_set[i].args \in 1 .. 3
  BY <1>2, Table DEF IInv, TypeOK
<1>4. /\ arg_test_vals \in Seq(Made) /\ n \in Nat /\ n < test_set[i].args
      /\ opt \in OptType
  BY <1>2 DEF IInv, Typed
<1>5. n + 1 \in 1 .. 3
  BY <1>3, <1>4
<1>6. vals \in Made
  <2>1. CASE n + 1 \in opt.has_arg
    <3>1. vals = <<opt.argval[n + 1]>>
      BY <1>1, <2>1 DEF ArgVals
    <3>2. opt.argval[n + 1] \in ArgVal
      BY <1>4, <1>5 DEF OptType
    <3>3. QED
      BY <3>1, <3>2 DEF Made
  <2>2. CASE n + 1 \notin opt.has_arg
    <3>1. \E w \in Weights :
            vals = gen_vals(test_set[i].ranges[n + 1][1],
                            test_set[i].ranges[n + 1][2],
                            arg_test_range(test_set[i].args), w)
      BY <1>1, <2>2 DEF ArgVals
    <3>2. QED
      <4> HIDE DEF n
      <4> QED
        BY <1>3, <1>5, <3>1 DEF Made
  <2>3. QED
    BY <2>1, <2>2
<1>7. arg_test_vals' \in Seq(Made) /\ Len(arg_test_vals') = n + 1
  BY <1>1, <1>4, <1>6
<1>8. TypeOK'
  <2>1. pc' # "gen" => Len(arg_test_vals') = test_set[i'].args
    BY <1>2, <1>3, <1>4, <1>7
  <2>2. pc' \in {"gen", "sigsetjmp", "run"} /\ a1' \in Nat
    BY <1>2
  <2>3. QED
    <3> HIDE DEF n
    <3> QED
      BY <1>2, <1>3, <2>1, <2>2 DEF IInv, TypeOK, Final
<1>9. Typed'
  <2>1. pc' = "gen" => Len(arg_test_vals') < test_set[i'].args
    BY <1>2, <1>7
  <2>2. line' \in Seq(Options) /\ opt' \in OptType
    BY <1>2, <1>4 DEF IInv, Typed
  <2>3. QED
    BY <1>7, <2>1, <2>2 DEF Typed
<1>10. Pending'
  <2>1. pc' \in {"gen", "sigsetjmp", "run"}
    BY <1>2
  <2>2. \A m : Selected(m)' <=> Selected(m)
    BY <1>2 DEF Selected
  <2>3. Selected(i)'
    BY <1>2 DEF IInv, Pending, Running, Selected
  <2>4. alarm' # 0 => \E j \in 1 .. i' - 1 : Selected(j)'
    BY <1>2, <2>2 DEF IInv, Pending
  <2>5. QED
    BY <2>1, <2>3, <2>4 DEF Pending
<1>11. RunsUnderOwnAlarm'
  BY <1>2, <1>4 DEF RunsUnderOwnAlarm
<1>12. Reading' /\ ArgumentsTaken'
  BY <1>2, ReadingKept
<1>13. QED
  BY <1>8, <1>9, <1>10, <1>11, <1>12 DEF IInv

LEMMA SaveFrameInv == IInv /\ SaveFrame => IInv'
<1> SUFFICES ASSUME IInv, SaveFrame PROVE IInv'
  OBVIOUS
<1>1. /\ pc = "sigsetjmp" /\ pc' = "alarm" /\ envbuf' = i /\ line' = line
      /\ optind' = optind /\ opt' = opt /\ i' = i
      /\ arg_test_vals' = arg_test_vals /\ a1' = a1 /\ verdict' = verdict
      /\ alarm' = alarm /\ fired' = fired /\ wild' = wild
  BY DEF SaveFrame, testvars
<1>2. i \in 1 .. 27 /\ i \in Tests
  BY <1>1, Table DEF IInv, TypeOK
<1>3. i \in 0 .. i
  BY <1>2
<1>4. TypeOK' /\ Typed'
  BY <1>1, <1>2, <1>3 DEF IInv, TypeOK, Typed, Final
<1>5. Pending'
  BY <1>1 DEF IInv, Pending, Running, Selected
<1>6. Reading' /\ ArgumentsTaken' /\ RunsUnderOwnAlarm'
  BY <1>1, ReadingKept DEF RunsUnderOwnAlarm
<1>7. QED
  BY <1>4, <1>5, <1>6 DEF IInv

LEMMA SetAlarmInv == IInv /\ SetAlarm => IInv'
<1> SUFFICES ASSUME IInv, SetAlarm PROVE IInv'
  OBVIOUS
<1>1. /\ pc = "alarm" /\ pc' = "run" /\ alarm' = i /\ a1' = 1 /\ line' = line
      /\ optind' = optind /\ opt' = opt /\ i' = i
      /\ arg_test_vals' = arg_test_vals /\ verdict' = verdict
      /\ envbuf' = envbuf /\ fired' = fired /\ wild' = wild
  BY DEF SetAlarm
<1>2. i \in 1 .. 27 /\ i \in Tests
  BY <1>1, Table DEF IInv, TypeOK
<1>3. i \in 0 .. i
  BY <1>2
<1>4. TypeOK' /\ Typed'
  BY <1>1, <1>2, <1>3 DEF IInv, TypeOK, Typed, Final
<1>5. Pending' /\ RunsUnderOwnAlarm'
  BY <1>1 DEF IInv, Pending, Running, Selected, RunsUnderOwnAlarm
<1>6. Reading' /\ ArgumentsTaken'
  BY <1>1, ReadingKept
<1>7. QED
  BY <1>4, <1>5, <1>6 DEF IInv

LEMMA TestValueInv == IInv /\ TestValue => IInv'
<1> SUFFICES ASSUME IInv, TestValue PROVE IInv'
  OBVIOUS
<1>1. /\ pc = "run" /\ line' = line /\ optind' = optind /\ opt' = opt
      /\ i' = i /\ arg_test_vals' = arg_test_vals /\ envbuf' = envbuf
      /\ alarm' = alarm /\ fired' = fired /\ wild' = wild
      /\ \/ a1' = a1 + 1 /\ pc' = pc /\ verdict' = verdict
         \/ a1' = a1 /\ verdict' = "mismatch" /\ pc' = "score"
  BY DEF TestValue, sigvars
<1>2. TypeOK' /\ Typed'
  <2>1. CASE a1' = a1 + 1 /\ pc' = pc /\ verdict' = verdict
    <3>1. a1' \in Nat
      BY <2>1 DEF IInv, TypeOK
    <3>2. QED
      BY <1>1, <2>1, <3>1 DEF IInv, TypeOK, Typed, Final
  <2>2. CASE a1' = a1 /\ verdict' = "mismatch" /\ pc' = "score"
    BY <1>1, <2>2 DEF IInv, TypeOK, Typed, Final
  <2>3. QED
    BY <1>1, <2>1, <2>2
<1>3. Pending' /\ RunsUnderOwnAlarm'
  BY <1>1 DEF IInv, Pending, Running, Selected, RunsUnderOwnAlarm
<1>4. Reading' /\ ArgumentsTaken'
  BY <1>1, ReadingKept
<1>5. QED
  BY <1>2, <1>3, <1>4 DEF IInv

LEMMA EndValuesInv == IInv /\ EndValues => IInv'
<1> SUFFICES ASSUME IInv, EndValues PROVE IInv'
  OBVIOUS
<1>1. /\ pc = "run" /\ line' = line /\ optind' = optind /\ opt' = opt
      /\ i' = i /\ arg_test_vals' = arg_test_vals /\ envbuf' = envbuf
      /\ alarm' = alarm /\ fired' = fired /\ wild' = wild
      /\ a1' = a1 /\ verdict' = "passed" /\ pc' = "score"
  BY DEF EndValues, sigvars
<1>2. TypeOK' /\ Typed'
  BY <1>1 DEF IInv, TypeOK, Typed, Final
<1>3. Pending' /\ RunsUnderOwnAlarm'
  BY <1>1 DEF IInv, Pending, Running, Selected, RunsUnderOwnAlarm
<1>4. Reading' /\ ArgumentsTaken'
  BY <1>1, ReadingKept
<1>5. QED
  BY <1>2, <1>3, <1>4 DEF IInv

(* The entry after a test: whatever alarm is pending is not of a later one.*)
LEMMA ScoreInv == IInv /\ Score => IInv'
<1> SUFFICES ASSUME IInv, Score PROVE IInv'
  OBVIOUS
<1>1. /\ pc = "score" /\ pc' = "select" /\ i' = i + 1 /\ line' = line
      /\ optind' = optind /\ opt' = opt /\ arg_test_vals' = <<>>
      /\ a1' = 0 /\ verdict' = "none" /\ envbuf' = envbuf
      /\ alarm' = alarm /\ fired' = fired /\ wild' = wild
  BY DEF Score, sigvars
<1>2. /\ i \in 1 .. 26 /\ envbuf \in 0 .. i /\ alarm \in 0 .. i
      /\ Selected(i)
  BY <1>1, Table DEF IInv, TypeOK, Pending, Running
<1>3. /\ i' \in 1 .. 27 /\ envbuf' \in 0 .. i' /\ alarm' \in 0 .. i'
      /\ envbuf' < i' /\ alarm' < i' /\ i' - 1 = i
  BY <1>1, <1>2
<1>4. TypeOK'
  <2>1. /\ optind \in Nat /\ opt.has_arg \subseteq 1 .. 3
        /\ opt.timeout_limit \in Int
        /\ fired \in 0 .. MaxTimeouts /\ wild \in BOOLEAN
    BY DEF IInv, TypeOK
  <2>2. /\ optind' \in Nat /\ opt'.has_arg \subseteq 1 .. 3
        /\ opt'.timeout_limit \in Int /\ a1' \in Nat
        /\ fired' \in 0 .. MaxTimeouts /\ wild' \in BOOLEAN
    BY <1>1, <2>1
  <2>3. i' \in 1 .. Len(test_set) + 1
    BY <1>3, Table
  <2>4. QED
    BY <1>1, <1>3, <2>2, <2>3 DEF TypeOK, Final
<1>5. Typed'
  BY <1>1 DEF IInv, Typed
<1>6. Pending'
  BY <1>1, <1>2, <1>3 DEF Pending, Running, Selected
<1>7. Reading' /\ ArgumentsTaken' /\ RunsUnderOwnAlarm'
  BY <1>1, ReadingKept DEF RunsUnderOwnAlarm
<1>8. QED
  BY <1>4, <1>5, <1>6, <1>7 DEF IInv

-----------------------------------------------------------------------------
(* A signal, wherever it arrives: it can only end a test that has begun.   *)
LEMMA TimeoutInv == IInv /\ Timeout => IInv'
<1> SUFFICES ASSUME IInv, Timeout PROVE IInv'
  OBVIOUS
<1>1. /\ pc \in {"alarm", "run"} /\ pc' = "score" /\ verdict' = "timeout"
      /\ alarm' = 0 /\ fired' = fired + 1 /\ fired < MaxTimeouts
      /\ line' = line /\ optind' = optind /\ opt' = opt /\ i' = i
      /\ arg_test_vals' = arg_test_vals /\ a1' = a1 /\ envbuf' = envbuf
      /\ wild' = wild
  BY DEF Timeout, Deliver, FrameIsLive
<1>2. i \in 1 .. 27 /\ i \in Tests /\ fired' \in 0 .. MaxTimeouts
  BY <1>1, Table, BtestAssumption DEF IInv, TypeOK
<1>3. 0 \in 0 .. i
  BY <1>2
<1>4. TypeOK' /\ Typed'
  BY <1>1, <1>2, <1>3 DEF IInv, TypeOK, Typed, Final
<1>5. Pending'
  BY <1>1 DEF IInv, Pending, Running, Selected
<1>6. Reading' /\ ArgumentsTaken' /\ RunsUnderOwnAlarm'
  BY <1>1, ReadingKept DEF RunsUnderOwnAlarm
<1>7. QED
  BY <1>4, <1>5, <1>6 DEF IInv

LEMMA StrayTimeoutInv == IInv /\ StrayTimeout => IInv'
<1> SUFFICES ASSUME IInv, StrayTimeout PROVE IInv'
  OBVIOUS
<1>1. /\ alarm # 0 /\ alarm' = 0 /\ fired' = fired + 1 /\ fired < MaxTimeouts
      /\ line' = line /\ optind' = optind /\ opt' = opt
      /\ arg_test_vals' = arg_test_vals /\ a1' = a1 /\ envbuf' = envbuf
      /\ pc \notin Final /\ wild' = TRUE
      /\ \/ pc' = "crash" /\ verdict' = "none" /\ i' = i
         \/ /\ pc' = "score" /\ verdict' = "timeout"
            /\ i' = IF pc = "select" THEN i - 1 ELSE i
  BY DEF StrayTimeout, Deliver
<1>2. pc \in {"select"} \union Running
  <2>1. pc # "args"
    BY <1>1 DEF IInv, Pending
  <2>2. QED
    BY <1>1, <2>1 DEF IInv, TypeOK, Final, Running
<1>3. fired' \in 0 .. MaxTimeouts
  BY <1>1, BtestAssumption DEF IInv, TypeOK
<1>4. Reading' /\ ArgumentsTaken' /\ RunsUnderOwnAlarm'
  BY <1>1, <1>2, ReadingKept DEF RunsUnderOwnAlarm, Running
<1>5. \A n : Selected(n)' <=> Selected(n)
  BY <1>1 DEF Selected
<1>6. CASE pc' = "crash"
  <2>1. verdict' = "none" /\ i' = i
    BY <1>1, <1>6
  <2>2. i \in 1 .. 27 /\ envbuf \in 0 .. i /\ 0 \in 0 .. i
    BY Table DEF IInv, TypeOK
  <2>3. TypeOK' /\ Typed'
    BY <1>1, <1>3, <1>6, <2>1, <2>2, Table DEF IInv, TypeOK, Typed, Final
  <2>4. Pending'
    BY <1>6 DEF Pending, Running
  <2>5. QED
    BY <1>4, <2>3, <2>4 DEF IInv
<1>7. CASE pc' = "score"
  <2>1. verdict' = "timeout" /\ i' = IF pc = "select" THEN i - 1 ELSE i
    BY <1>1, <1>7
  <2>2. /\ i' \in 1 .. 27 /\ i' \in Tests /\ envbuf' \in 0 .. i'
        /\ alarm' \in 0 .. i' /\ Selected(i')
    <3>1. CASE pc = "select"
      <4>1. /\ i \in 1 .. 27 /\ alarm \in 0 .. i /\ alarm < i /\ envbuf < i
            /\ envbuf \in 0 .. i /\ Selected(i - 1)
        BY <1>1, <3>1, Table DEF IInv, TypeOK, Pending
      <4>2. i' = i - 1
        BY <2>1, <3>1
      <4>3. QED
        BY <1>1, <4>1, <4>2, Table
    <3>2. CASE pc \in Running
      <4>1. i' = i
        BY <2>1, <3>2 DEF Running
      <4>2. i \in 1 .. 27 /\ i \in Tests /\ envbuf \in 0 .. i /\ Selected(i)
        BY <3>2, Table DEF IInv, TypeOK, Pending, Running
      <4>3. QED
        BY <1>1, <4>1, <4>2
    <3>3. QED
      BY <1>2, <3>1, <3>2
  <2>3. TypeOK' /\ Typed'
    <3>1. Typed'
      BY <1>1, <1>7 DEF IInv, Typed
    <3>2. /\ optind' = optind /\ opt' = opt /\ a1' = a1 /\ wild' = TRUE
          /\ verdict' = "timeout" /\ alarm' = 0
      BY <1>1, <2>1
    <3>3. /\ i' \in 1 .. Len(test_set) + 1 /\ i' \in Tests
          /\ envbuf' \in 0 .. i' /\ alarm' \in 0 .. i'
      BY <2>2, Table
    <3>4. TypeOK'
      BY <1>3, <1>7, <3>2, <3>3 DEF IInv, TypeOK, Final
    <3>5. QED
      BY <3>1, <3>4
  <2>4. Pending'
    BY <1>1, <1>7, <2>2 DEF Pending, Running, Selected
  <2>5. QED
    BY <1>4, <2>3, <2>4 DEF IInv
<1>8. QED
  BY <1>1, <1>6, <1>7

LEMMA StutterInv == IInv /\ UNCHANGED vars => IInv'
<1> SUFFICES ASSUME IInv, UNCHANGED vars PROVE IInv'
  OBVIOUS
<1>1. /\ pc' = pc /\ line' = line /\ optind' = optind /\ opt' = opt /\ i' = i
      /\ arg_test_vals' = arg_test_vals /\ a1' = a1 /\ verdict' = verdict
      /\ envbuf' = envbuf /\ alarm' = alarm /\ fired' = fired /\ wild' = wild
  BY DEF vars, testvars, sigvars
<1>2. TypeOK' /\ Typed'
  BY <1>1 DEF IInv, TypeOK, Typed, Final
<1>3. Pending' /\ RunsUnderOwnAlarm'
  BY <1>1 DEF IInv, Pending, Running, Selected, RunsUnderOwnAlarm
<1>4. Reading' /\ ArgumentsTaken'
  BY <1>1 DEF IInv, Reading, Taken, ArgumentsTaken, Given
<1>5. QED
  BY <1>2, <1>3, <1>4 DEF IInv

LEMMA NextInv == IInv /\ [Next]_vars => IInv'
<1> SUFFICES ASSUME IInv, [Next]_vars PROVE IInv'
  OBVIOUS
<1>1. CASE Step
  BY <1>1, ParseOptionInv, EndOptionsInv, StartTestInv, EndTestsInv,
     GenValsInv, SaveFrameInv, SetAlarmInv, TestValueInv, EndValuesInv,
     ScoreInv DEF Step
<1>2. CASE Timeout \/ StrayTimeout
  BY <1>2, TimeoutInv, StrayTimeoutInv
<1>3. CASE Done \/ UNCHANGED vars
  BY <1>3, StutterInv DEF Done
<1>4. QED
  BY <1>1, <1>2, <1>3 DEF Next

LEMMA Invariance == Spec => []IInv
<1>1. Init => IInv
  BY InitInv
<1>2. IInv /\ [Next]_vars => IInv'
  BY NextInv
<1>3. QED
  BY <1>1, <1>2, PTL DEF Spec

-----------------------------------------------------------------------------
(* The program's variables hold what the code keeps in them, and a test    *)
(* runs on values for every argument of its puzzle.                        *)
THEOREM TypeCorrect == Spec => []TypeOK
<1>1. IInv => TypeOK
  BY DEF IInv
<1>2. QED
  BY <1>1, Invariance, PTL

(* While a puzzle runs under a limit the pending alarm and the saved frame *)
(* are its own, though an alarm is never cancelled: alarm() replaces the   *)
(* one left over before the first value is tried.                          *)
THEOREM OwnAlarm == Spec => []RunsUnderOwnAlarm
<1>1. IInv => RunsUnderOwnAlarm
  BY DEF IInv
<1>2. QED
  BY <1>1, Invariance, PTL

(* The values of -1, -2 and -3 are the ones the options hold when the      *)
(* tests begin, and one is refused only for the reasons get_num_val has.   *)
THEOREM ArgumentsAsGiven == Spec => []ArgumentsTaken
<1>1. IInv => ArgumentsTaken
  BY DEF IInv
<1>2. QED
  BY <1>1, Invariance, PTL

(* The alarm left over by a test can reach the preparation of a later one, *)
(* never of the first that is selected.                                    *)
THEOREM FirstTestIsFair == Spec => FirstTestFair
<1> DEFINE A == fired' > fired /\ pc \in {"gen", "sigsetjmp", "alarm"} =>
                  \E j \in 1 .. i - 1 : Selected(j)
<1>1. IInv /\ [Next]_vars => [A]_vars
  <2> SUFFICES ASSUME IInv, Next PROVE A
    BY DEF Next
  <2>1. CASE Deliver
    <3>1. alarm # 0
      BY <2>1 DEF Deliver
    <3>2. QED
      BY <3>1 DEF IInv, Pending
  <2>2. CASE Step \/ Done
    <3>1. fired' = fired
      BY <2>2 DEF Step, Done, ParseOption, EndOptions, StartTest, EndTests,
                  GenVals, SaveFrame, SetAlarm, TestValue, EndValues, Score,
                  vars, sigvars
    <3>2. fired \in Int
      BY BtestAssumption DEF IInv, TypeOK
    <3>3. QED
      BY <3>1, <3>2
  <2>3. QED
    BY <2>1, <2>2 DEF Next, Timeout, StrayTimeout
<1>2. QED
  BY <1>1, Invariance, PTL DEF Spec, FirstTestFair

-----------------------------------------------------------------------------
(* Induction on an interval, for a set of good numbers.                    *)
LEMMA NatHasLeast ==
  ASSUME NEW T \in SUBSET Nat, T # {}
  PROVE  \E m \in T : \A k \in T : m <= k
<1> DEFINE Less == OpToRel(<, Nat)
<1>1. IsWellFoundedOn(Less, Nat)
  BY NatLessThanWellFounded
<1>2. PICK m \in T : \A k \in T : <<k, m>> \notin Less
  <2> HIDE DEF Less
  <2> QED
    BY <1>1, WFMin
<1>3. ASSUME NEW k \in T PROVE m <= k
  <2>1. k \in Nat /\ m \in Nat
    OBVIOUS
  <2>2. <<k, m>> \in Less <=> k < m
    BY <2>1 DEF OpToRel
  <2>3. ~(k < m)
    BY <1>2, <2>2
  <2> QED
    BY <2>1, <2>3
<1> QED
  BY <1>3

LEMMA UpTo ==
  ASSUME NEW n \in Nat, NEW T, 0 \in T,
         \A m \in 1 .. n : m - 1 \in T => m \in T
  PROVE  0 .. n \subseteq T
<1> DEFINE Bad == {m \in 0 .. n : m \notin T}
<1> SUFFICES ASSUME Bad # {} PROVE FALSE
  OBVIOUS
<1>1. PICK m \in Bad : \A k \in Bad : m <= k
  <2>1. Bad \in SUBSET Nat
    OBVIOUS
  <2> HIDE DEF Bad
  <2> QED
    BY <2>1, NatHasLeast
<1>2. m \in 1 .. n /\ m \notin T /\ m - 1 \in 0 .. n /\ m - 1 < m
  OBVIOUS
<1>3. m - 1 \in T
  BY <1>1, <1>2
<1> QED
  BY <1>2, <1>3

(* A nonempty set of naturals below a bound has a greatest.                *)
LEMMA MaxBelow ==
  ASSUME NEW n \in Nat, NEW T \in SUBSET (0 .. n), T # {}
  PROVE  Max(T) \in T
<1> DEFINE Rest == {n - x : x \in T}
<1>1. Rest \in SUBSET Nat /\ Rest # {}
  <2>1. \A x \in T : x \in 0 .. n /\ n - x \in Nat
    OBVIOUS
  <2> QED
    BY <2>1
<1>2. PICK r \in Rest : \A k \in Rest : r <= k
  <2> HIDE DEF Rest
  <2> QED
    BY <1>1, NatHasLeast
<1>3. PICK x \in T : r = n - x
  BY <1>2
<1>4. \A y \in T : x >= y
  <2> SUFFICES ASSUME NEW y \in T PROVE x >= y
    OBVIOUS
  <2>1. n - y \in Rest
    OBVIOUS
  <2>2. r <= n - y
    BY <1>2, <2>1
  <2>3. x \in 0 .. n /\ y \in 0 .. n
    OBVIOUS
  <2> HIDE DEF Rest
  <2> QED
    BY <1>3, <2>2, <2>3
<1> QED
  BY <1>4 DEF Max

(* Repeating a step n times: there is a function that records every result.*)
Records(f, n, Y, first, step) ==
  /\ f \in [0 .. n -> Y] /\ f[0] = first
  /\ \A j \in 1 .. n : f[j] = step[<<j, f[j - 1]>>]

LEMMA StepsExist ==
  ASSUME NEW n \in Nat, NEW Y, NEW first \in Y, NEW step,
         \A j \in 1 .. n, y \in Y : step[<<j, y>>] \in Y
  PROVE  \E f : Records(f, n, Y, first, step)
<1> DEFINE Solves(f, m) == /\ f \in [0 .. m -> Y] /\ f[0] = first
                           /\ \A j \in 1 .. m : f[j] = step[<<j, f[j - 1]>>]
           T == {m \in 0 .. n : \E f : Solves(f, m)}
<1>1. 0 \in T
  <2> DEFINE g == [j \in 0 .. 0 |-> first]
  <2>1. g \in [0 .. 0 -> Y] /\ g[0] = first
    OBVIOUS
  <2> HIDE DEF g
  <2>2. Solves(g, 0)
    BY <2>1
  <2> QED
    BY <2>2
<1>2. ASSUME NEW m \in 1 .. n, m - 1 \in T PROVE m \in T
  <2>1. PICK f : Solves(f, m - 1)
    BY <1>2
  <2> DEFINE g == [j \in 0 .. m |-> IF j = m THEN step[<<m, f[m - 1]>>] ELSE f[j]]
  <2>2. step[<<m, f[m - 1]>>] \in Y
    <3>1. f[m - 1] \in Y
      BY <2>1
    <3> QED
      BY <3>1
  <2>3. g \in [0 .. m -> Y] /\ g[0] = first
    BY <2>1, <2>2
  <2>4. ASSUME NEW j \in 1 .. m PROVE g[j] = step[<<j, g[j - 1]>>]
    <3>1. CASE j = m
      <4>1. g[m - 1] = f[m - 1] /\ g[m] = step[<<m, f[m - 1]>>]
        OBVIOUS
      <4> QED
        BY <3>1, <4>1
    <3>2. CASE j # m
      <4>1. j \in 1 .. m - 1 /\ g[j] = f[j] /\ g[j - 1] = f[j - 1]
        BY <3>2
      <4>2. f[j] = step[<<j, f[j - 1]>>]
        BY <2>1, <4>1
      <4> QED
        BY <4>1, <4>2
    <3> QED
      BY <3>1, <3>2
  <2> HIDE DEF g
  <2>5. Solves(g, m)
    BY <2>3, <2>4
  <2> QED
    BY <2>5
<1>3. n \in T
  <2> HIDE DEF T
  <2>1. 0 .. n \subseteq T
    BY <1>1, <1>2, UpTo
  <2> QED
    BY <2>1
<1> QED
  BY <1>3 DEF Records

-----------------------------------------------------------------------------
(* The values of gen_vals fit in its arrays.                               *)

LEMMA TwoParts ==
  ASSUME NEW V, NEW s \in Seq(V), NEW t \in Seq(V)
  PROVE  s \o t \in Seq(V) /\ Len(s \o t) = Len(s) + Len(t)
OBVIOUS

(* What n pieces of at most m values each come to.                         *)
LEMMA FlattenLength ==
  ASSUME NEW V, NEW n \in Nat, NEW m \in Nat, NEW s \in [1 .. n -> Seq(V)],
         \A k \in 1 .. n : Len(s[k]) <= m
  PROVE  FlattenSeq(s) \in Seq(V) /\ Len(FlattenSeq(s)) <= m * n
<1>1. s \in Seq(Seq(V)) /\ Len(s) = n
  OBVIOUS
<1>2. CASE n = 0
  <2>1. s \in [1 .. 0 -> V]
    BY <1>2
  <2>2. FlattenSeq(s) = s
    BY <1>1, <1>2 DEF FlattenSeq
  <2>3. s \in Seq(V) /\ Len(s) = 0 /\ m * 0 = 0
    BY <2>1
  <2> QED
    BY <1>2, <2>2, <2>3
<1>3. CASE n > 0
  <2> DEFINE Y == {t \in Seq(V) : TRUE}
             Def(f) == f = [j \in 1 .. Len(s) |-> IF j = 1 THEN s[j] ELSE f[j - 1] \o s[j]]
             step == [p \in (1 .. n) \X Seq(V) |-> p[2] \o s[p[1]]]
  <2>1. \E f : Def(f)
    <3>1. <<>> \in Seq(V)
      OBVIOUS
    <3>2. ASSUME NEW j \in 1 .. n, NEW t \in Seq(V)
          PROVE  step[<<j, t>>] = t \o s[j] /\ t \o s[j] \in Seq(V)
      <4>1. s[j] \in Seq(V)
        OBVIOUS
      <4> QED
        BY <4>1, TwoParts
    <3>3. PICK f : Records(f, n, Seq(V), <<>>, step)
      <4>1. \A j \in 1 .. n, t \in Seq(V) : step[<<j, t>>] \in Seq(V)
        BY <3>2
      <4> HIDE DEF step
      <4> QED
        BY <3>1, <4>1, StepsExist
    <3> HIDE DEF step
    <3>4. \A j \in 1 .. n : f[j] = f[j - 1] \o s[j]
      <4> SUFFICES ASSUME NEW j \in 1 .. n PROVE f[j] = f[j - 1] \o s[j]
        OBVIOUS
      <4>1. f[j - 1] \in Seq(V) /\ f[j] = step[<<j, f[j - 1]>>]
        BY <3>3 DEF Records
      <4>2. step[<<j, f[j - 1]>>] = f[j - 1] \o s[j]
        BY <3>2, <4>1
      <4> QED
        BY <4>1, <4>2
    <3>5. f[1] = s[1]
      <4>1. 1 \in 1 .. n /\ 1 - 1 = 0
        BY <1>3
      <4>2. f[1] = <<>> \o s[1]
        BY <3>3, <3>4, <4>1 DEF Records
      <4>3. s[1] \in Seq(V)
        BY <4>1
      <4> QED
        BY <4>2, <4>3
    <3> DEFINE g == [j \in 1 .. n |-> f[j]]
    <3>6. ASSUME NEW j \in 1 .. n
          PROVE  g[j] = IF j = 1 THEN s[j] ELSE g[j - 1] \o s[j]
      <4>1. CASE j = 1
        BY <3>5, <4>1
      <4>2. CASE j # 1
        <5>1. j - 1 \in 1 .. n
          BY <4>2
        <5>2. g[j - 1] = f[j - 1] /\ g[j] = f[j]
          BY <5>1
        <5> HIDE DEF g
        <5> QED
          BY <3>4, <4>2, <5>2
      <4> QED
        BY <4>1, <4>2
    <3>7. g = [j \in 1 .. n |-> IF j = 1 THEN s[j] ELSE g[j - 1] \o s[j]]
      <4>1. DOMAIN g = 1 .. n /\ g = [j \in 1 .. n |-> g[j]]
        OBVIOUS
      <4> HIDE DEF g
      <4> QED
        BY <3>6, <4>1
    <3>8. Def(g)
      <4> HIDE DEF g
      <4> QED
        BY <1>1, <3>7
    <3> QED
      BY <3>8
  <2> DEFINE f == CHOOSE f : Def(f)
  <2>2. Def(f)
    <3> HIDE DEF Def
    <3> QED
      BY <2>1
  <2>3. FlattenSeq(s) = f[n]
    BY <1>1, <1>3 DEF FlattenSeq
  <2> HIDE DEF f
  <2>4. \A j \in 1 .. n : f[j] = IF j = 1 THEN s[j] ELSE f[j - 1] \o s[j]
    BY <1>1, <2>2
  <2> DEFINE T == {j \in 0 .. n : j = 0 \/ (f[j] \in Seq(V) /\ Len(f[j]) <= m * j)}
  <2>5. 0 \in T
    OBVIOUS
  <2>6. ASSUME NEW j \in 1 .. n, j - 1 \in T PROVE j \in T
    <3>1. s[j] \in Seq(V) /\ Len(s[j]) <= m /\ Len(s[j]) \in Nat
      OBVIOUS
    <3>2. CASE j = 1
      <4>1. f[j] = s[j]
        BY <2>4, <3>2
      <4> QED
        BY <3>1, <3>2, <4>1
    <3>3. CASE j # 1
      <4>1. f[j] = f[j - 1] \o s[j]
        BY <2>4, <3>3
      <4>2. f[j - 1] \in Seq(V) /\ Len(f[j - 1]) <= m * (j - 1)
        BY <2>6, <3>3
      <4>3. f[j] \in Seq(V) /\ Len(f[j]) = Len(f[j - 1]) + Len(s[j])
        BY <3>1, <4>1, <4>2, TwoParts
      <4>4. m * (j - 1) + m = m * j
        OBVIOUS
      <4>5. m * (j - 1) \in Int /\ m * j \in Int /\ Len(f[j - 1]) \in Nat
        BY <4>2
      <4>6. Len(f[j]) <= m * j
        BY <3>1, <4>2, <4>3, <4>4, <4>5
      <4> QED
        BY <4>3, <4>6
    <3> QED
      BY <3>2, <3>3
  <2>7. n \in T
    <3> HIDE DEF T
    <3>1. 0 .. n \subseteq T
      BY <2>5, <2>6, UpTo
    <3> QED
      BY <3>1
  <2> QED
    BY <1>3, <2>3, <2>7
<1> QED
  BY <1>2, <1>3

LEMMA PowersAreInts ==
  /\ 2^(W - 1) \in Int /\ 2^BYTE \in Int /\ W \in Int
  /\ FR \in Nat /\ EX \in Nat /\ 2^FR \in Int /\ 2^EX \in Int /\ 2^(FR - 1) \in Int
  /\ Bias \in Int
<1>1. /\ W - 1 \in Nat /\ BYTE \in Nat /\ FR \in Nat /\ EX \in Nat /\ W \in Int
      /\ FR - 1 \in Nat /\ EX - 1 \in Nat
  BY WordAssumption, FloatAssumption
<1>2. 2^(W - 1) \in Int /\ 2^BYTE \in Int /\ 2^FR \in Int /\ 2^EX \in Int
  BY <1>1
<1>3. 2^(FR - 1) \in Int /\ 2^(EX - 1) \in Int
  BY <1>1
<1> QED
  BY <1>1, <1>2, <1>3 DEF Bias

(* The ranges of the table are ints.                                       *)
LEMMA Ranges ==
  ASSUME NEW t \in Tests, NEW k \in 1 .. 3
  PROVE  test_set[t].ranges[k][1] \in Int /\ test_set[t].ranges[k][2] \in Int
<1> DEFINE Good(r) == r[1] \in Int /\ r[2] \in Int
<1>1. /\ Good(ALL) /\ Good(SYM) /\ Good(NTH) /\ Good(FLT)
      /\ Good(<<1, W>>) /\ Good(<<0, W - 1>>) /\ Good(<<0, 2^BYTE - 1>>)
  BY PowersAreInts DEF ALL, SYM, NTH, FLT, TMin, TMax
<1>2. k = 1 \/ k = 2 \/ k = 3
  OBVIOUS
<1>3. \A name, args, rating, r1, r2, r3 :
        Good(r1) /\ Good(r2) /\ Good(r3)
          => Good(Row(name, args, rating, r1, r2, r3).ranges[k])
  BY <1>2 DEF Row
<1>4. \/ t = 1 \/ t = 2 \/ t = 3 \/ t = 4 \/ t = 5 \/ t = 6 \/ t = 7
      \/ t = 8 \/ t = 9 \/ t = 10 \/ t = 11 \/ t = 12 \/ t = 13 \/ t = 14
      \/ t = 15 \/ t = 16 \/ t = 17 \/ t = 18 \/ t = 19 \/ t = 20 \/ t = 21
      \/ t = 22 \/ t = 23 \/ t = 24 \/ t = 25 \/ t = 26
  BY Table
<1> HIDE DEF Good
<1>5. Good(test_set[t].ranges[k])
  BY <1>1, <1>3, <1>4 DEF test_set
<1> QED
  BY <1>5 DEF Good

(* The range given to gen_vals is at most TEST_RANGE.                      *)
LEMMA RangeBound ==
  ASSUME NEW args
  PROVE  arg_test_range(args) \in 0 .. TEST_RANGE
<1> DEFINE root == {r \in 0 .. TEST_RANGE : \/ args = 1
                                            \/ args = 2 /\ r * r <= TEST_RANGE
                                            \/ r * r * r < TEST_RANGE}
<1>1. TEST_RANGE \in Nat /\ TEST_RANGE >= 4
  BY RangeAssumption
<1>2. root \in SUBSET (0 .. TEST_RANGE) /\ 0 \in root
  BY <1>1
<1>3. arg_test_range(args) = IF Max(root) < 1 THEN 1 ELSE Max(root)
  BY DEF arg_test_range
<1> HIDE DEF root
<1>4. Max(root) \in root
  <2>1. root # {}
    BY <1>2
  <2> QED
    BY <1>1, <1>2, <2>1, MaxBelow
<1>5. Max(root) \in 0 .. TEST_RANGE
  BY <1>2, <1>4
<1> DEFINE m == Max(root)
<1>6. m \in 0 .. TEST_RANGE /\ arg_test_range(args) = IF m < 1 THEN 1 ELSE m
  BY <1>3, <1>5
<1> HIDE DEF m
<1> QED
  BY <1>1, <1>6

LEMMA FloatValsFit ==
  ASSUME NEW range \in 0 .. TEST_RANGE
  PROVE  Len(FloatVals(range)) <= MAX_TEST_VALS
<1>1. TEST_RANGE \in Nat /\ TEST_RANGE >= 4
  BY RangeAssumption
<1> DEFINE TOP == 2^(W - 1)
           smallest_norm == 2^FR
           one == Bias * 2^FR
           largest_norm == (2^EX - 2) * 2^FR
           inf == (2^EX - 1) * 2^FR
           nan == inf + 2^(FR - 1)
           Round(r) == << r, TOP + r,
                          smallest_norm + r, smallest_norm - r,
                          TOP + smallest_norm + r, TOP + smallest_norm - r,
                          one + r, one - r, TOP + one + r, TOP + one - r,
                          largest_norm - r, TOP + largest_norm - r >>
           rounds == IF range > 2^FR THEN 2^FR ELSE range
           s == [k \in 1 .. rounds |-> Round(k - 1)]
           special == << inf, TOP + inf, nan, TOP + nan >>
<1>2. FloatVals(range) = FlattenSeq(s) \o special
  BY DEF FloatVals
<1>3. /\ TOP \in Int /\ smallest_norm \in Int /\ one \in Int /\ largest_norm \in Int
      /\ inf \in Int /\ nan \in Int
  BY PowersAreInts
<1>4. rounds \in Int /\ rounds <= range
  BY PowersAreInts
<1> HIDE DEF TOP, smallest_norm, one, largest_norm, inf, nan, rounds
<1>5. \A r \in Int : Round(r) \in Seq(Int) /\ Len(Round(r)) <= 12
  BY <1>3
<1>6. special \in Seq(Int) /\ Len(special) = 4
  BY <1>3
<1> HIDE DEF Round, special
<1>7. FlattenSeq(s) \in Seq(Int) /\ Len(FlattenSeq(s)) <= 12 * range
  <2>1. CASE rounds \in Nat
    <3>1. ASSUME NEW k \in 1 .. rounds
          PROVE  Round(k - 1) \in Seq(Int) /\ Len(Round(k - 1)) <= 12
      <4>1. k - 1 \in Int
        BY <2>1
      <4> QED
        BY <1>5, <4>1
    <3>2. \A k \in 1 .. rounds : s[k] = Round(k - 1)
      OBVIOUS
    <3>3. s \in [1 .. rounds -> Seq(Int)] /\ \A k \in 1 .. rounds : Len(s[k]) <= 12
      BY <3>1, <3>2
    <3> HIDE DEF s
    <3>4. FlattenSeq(s) \in Seq(Int) /\ Len(FlattenSeq(s)) <= 12 * rounds
      BY <2>1, <3>3, FlattenLength
    <3> QED
      BY <1>4, <2>1, <3>4
  <2>2. CASE rounds < 0
    <3>1. s \in [1 .. 0 -> Seq(Int)] /\ \A k \in 1 .. 0 : Len(s[k]) <= 12
      BY <1>4, <2>2
    <3> HIDE DEF s
    <3>2. FlattenSeq(s) \in Seq(Int) /\ Len(FlattenSeq(s)) <= 12 * 0
      BY <3>1, FlattenLength
    <3> QED
      BY <3>2
  <2> QED
    BY <1>4, <2>1, <2>2
<1> HIDE DEF s
<1>8. Len(FloatVals(range)) = Len(FlattenSeq(s)) + 4
  BY <1>2, <1>6, <1>7, TwoParts
<1>9. Len(FlattenSeq(s)) \in Nat
  BY <1>7
<1> QED
  BY <1>1, <1>7, <1>8, <1>9 DEF MAX_TEST_VALS

LEMMA SampledValsFit ==
  ASSUME NEW min \in Int, NEW max \in Int, NEW range \in 0 .. TEST_RANGE,
         NEW weights \in [1 .. TEST_RANGE -> 0 .. 10]
  PROVE  Len(SampledVals(min, max, range, weights)) <= MAX_TEST_VALS
<1>1. TEST_RANGE \in Nat
  BY RangeAssumption
<1> DEFINE IfHeld(v) == IF v >= min /\ v <= max THEN << v >> ELSE << >>
           any(r) == random_val(min, max, weights[r + 1])
           Round(r) == << min + r, max - r >> \o IfHeld(r) \o IfHeld(-r) \o << any(r) >>
           s == [k \in 1 .. range |-> Round(k - 1)]
<1>2. SampledVals(min, max, range, weights) = FlattenSeq(s)
  BY DEF SampledVals
<1>3. ASSUME NEW r \in 0 .. range - 1
      PROVE  any(r) \in Int
  <2> DEFINE weight == weights[r + 1]
             tenths == min * (10 - weight) + max * weight
  <2>1. weight \in 0 .. 10
    BY <1>1
  <2> HIDE DEF weight
  <2>2. tenths \in Int
    BY <2>1
  <2>3. random_val(min, max, weight) = IF tenths >= 0 THEN tenths \div 10
                                       ELSE -((-tenths) \div 10)
    BY DEF random_val
  <2> HIDE DEF tenths
  <2>4. tenths \div 10 \in Int /\ (-tenths) \div 10 \in Int
    BY <2>2
  <2> QED
    BY <2>3, <2>4 DEF weight
<1>4. \A v \in Int : IfHeld(v) \in Seq(Int) /\ Len(IfHeld(v)) \in 0 .. 1
  OBVIOUS
<1> HIDE DEF IfHeld, any
<1>5. ASSUME NEW r \in 0 .. range - 1
      PROVE  Round(r) \in Seq(Int) /\ Len(Round(r)) <= 5
  <2>1. /\ r \in Int /\ -r \in Int
        /\ << min + r, max - r >> \in Seq(Int) /\ Len(<< min + r, max - r >>) = 2
    OBVIOUS
  <2>2. << any(r) >> \in Seq(Int) /\ Len(<< any(r) >>) = 1
    BY <1>3
  <2> DEFINE a == << min + r, max - r >>
             b == IfHeld(r)
             c == IfHeld(-r)
             d == << any(r) >>
  <2>3. /\ a \in Seq(Int) /\ b \in Seq(Int) /\ c \in Seq(Int) /\ d \in Seq(Int)
        /\ Len(a) = 2 /\ Len(b) \in 0 .. 1 /\ Len(c) \in 0 .. 1 /\ Len(d) = 1
    <3>1. b \in Seq(Int) /\ Len(b) \in 0 .. 1
      BY <1>4, <2>1
    <3>2. c \in Seq(Int) /\ Len(c) \in 0 .. 1
      BY <1>4, <2>1
    <3> HIDE DEF b, c
    <3> QED
      BY <2>1, <2>2, <3>1, <3>2
  <2> HIDE DEF a, b, c, d
  <2>4. a \o b \in Seq(Int) /\ Len(a \o b) = Len(a) + Len(b)
    BY <2>3, TwoParts
  <2>5. (a \o b) \o c \in Seq(Int) /\ Len((a \o b) \o c) = Len(a \o b) + Len(c)
    BY <2>3, <2>4, TwoParts
  <2>6. /\ ((a \o b) \o c) \o d \in Seq(Int)
        /\ Len(((a \o b) \o c) \o d) = Len((a \o b) \o c) + Len(d)
    BY <2>3, <2>5, TwoParts
  <2>7. Round(r) = ((a \o b) \o c) \o d
    BY DEF a, b, c, d
  <2> HIDE DEF Round
  <2> QED
    BY <2>3, <2>4, <2>5, <2>6, <2>7
<1> HIDE DEF Round
<1>6. range \in Nat /\ s \in [1 .. range -> Seq(Int)] /\ \A k \in 1 .. range : Len(s[k]) <= 5
  BY <1>1, <1>5
<1> HIDE DEF s
<1>7. FlattenSeq(s) \in Seq(Int) /\ Len(FlattenSeq(s)) <= 5 * range
  BY <1>6, FlattenLength
<1>8. Len(FlattenSeq(s)) \in Nat
  BY <1>7
<1> QED
  BY <1>1, <1>2, <1>7, <1>8 DEF MAX_TEST_VALS

LEMMA RangeFits ==
  ASSUME NEW min \in Int, NEW max \in Int, max - min # MAX_TEST_VALS,
         NEW range \in 0 .. TEST_RANGE,
         NEW weights \in [1 .. TEST_RANGE -> 0 .. 10]
  PROVE  Len(gen_vals(min, max, range, weights)) <= MAX_TEST_VALS
<1>1. MAX_TEST_VALS \in Nat
  BY RangeAssumption DEF MAX_TEST_VALS
<1>2. CASE min = 1 /\ max = 1
  <2>1. gen_vals(min, max, range, weights) = FloatVals(range)
    BY <1>2 DEF gen_vals
  <2> QED
    BY <2>1, FloatValsFit
<1>3. CASE ~(min = 1 /\ max = 1) /\ max - MAX_TEST_VALS <= min
  <2> DEFINE n == max - min + 1
             s == [v \in 1 .. n |-> min + v - 1]
  <2>1. gen_vals(min, max, range, weights) = s
    BY <1>3 DEF gen_vals
  <2>2. n \in Int /\ n <= MAX_TEST_VALS
    BY <1>1, <1>3
  <2> HIDE DEF n
  <2>3. CASE n \in Nat
    <3>1. Len(s) = n
      BY <2>3
    <3> QED
      BY <2>1, <2>2, <3>1
  <2>4. CASE n < 0
    <3>1. 1 .. n = 1 .. 0
      BY <2>2, <2>4
    <3>2. s \in [1 .. n -> Int]
      BY <2>2
    <3> HIDE DEF s
    <3>3. s \in [1 .. 0 -> Int]
      BY <3>1, <3>2
    <3>4. Len(s) = 0
      BY <3>3
    <3>5. Len(gen_vals(min, max, range, weights)) = 0
      BY <2>1, <3>4
    <3> QED
      BY <1>1, <3>5
  <2> QED
    BY <2>2, <2>3, <2>4
<1>4. CASE ~(min = 1 /\ max = 1) /\ ~(max - MAX_TEST_VALS <= min)
  <2>1. gen_vals(min, max, range, weights) = SampledVals(min, max, range, weights)
    BY <1>4 DEF gen_vals
  <2> QED
    BY <2>1, SampledValsFit
<1> QED
  BY <1>2, <1>3, <1>4

LEMMA MadeFits ==
  ASSUME NEW vals \in Made
  PROVE  Len(vals) <= MAX_TEST_VALS
<1>1. CASE \E v \in ArgVal : vals = <<v>>
  <2>1. Len(vals) = 1
    BY <1>1
  <2>2. MAX_TEST_VALS \in Nat /\ MAX_TEST_VALS >= 1
    BY RangeAssumption DEF MAX_TEST_VALS
  <2> QED
    BY <2>1, <2>2
<1>2. ASSUME NEW t \in Tests, NEW k \in 1 .. 3, NEW w \in Weights
      PROVE  Len(gen_vals(test_set[t].ranges[k][1], test_set[t].ranges[k][2],
                          arg_test_range(test_set[t].args), w)) <= MAX_TEST_VALS
  <2> DEFINE min == test_set[t].ranges[k][1]
             max == test_set[t].ranges[k][2]
             range == arg_test_range(test_set[t].args)
  <2>1. min \in Int /\ max \in Int
    BY Ranges
  <2>2. max - min # MAX_TEST_VALS
    BY RangesAssumption
  <2>3. range \in 0 .. TEST_RANGE /\ w \in [1 .. TEST_RANGE -> 0 .. 10]
    BY RangeBound, BtestAssumption
  <2> HIDE DEF min, max, range
  <2>4. Len(gen_vals(min, max, range, w)) <= MAX_TEST_VALS
    BY <2>1, <2>2, <2>3, RangeFits
  <2> QED
    BY <2>4 DEF min, max, range
<1>3. \/ \E v \in ArgVal : vals = <<v>>
      \/ \E t \in Tests, k \in 1 .. 3, w \in Weights :
           vals = gen_vals(test_set[t].ranges[k][1], test_set[t].ranges[k][2],
                           arg_test_range(test_set[t].args), w)
  BY DEF Made
<1> QED
  BY <1>1, <1>2, <1>3

(* gen_vals never writes past an array of test_function, whatever the word,*)
(* the size of the range tried around every value and the weights drawn.   *)
THEOREM ValuesFit == Spec => []WithinArrays
<1>1. IInv => WithinArrays
  <2> SUFFICES ASSUME IInv, NEW k \in 1 .. Len(arg_test_vals)
               PROVE  Len(arg_test_vals[k]) <= MAX_TEST_VALS
    BY DEF WithinArrays
  <2>1. arg_test_vals[k] \in Made
    BY DEF IInv, Typed
  <2> QED
    BY <2>1, MadeFits
<1>2. QED
  BY <1>1, Invariance, PTL

-----------------------------------------------------------------------------
(* The sums of the first values of a sequence.                             *)
LEMMA PartialSumsStep ==
  ASSUME NEW n \in Nat, NEW value \in [1 .. n -> Int]
  PROVE  /\ PartialSums(value) \in [0 .. n -> Int]
         /\ PartialSums(value)[0] = 0
         /\ \A j \in 1 .. n :
              PartialSums(value)[j] = PartialSums(value)[j - 1] + value[j]
<1> DEFINE Def(f) == f = [j \in 0 .. Len(value) |-> IF j = 0 THEN 0 ELSE f[j - 1] + value[j]]
           step == [p \in (1 .. n) \X Int |-> p[2] + value[p[1]]]
<1>1. Len(value) = n
  OBVIOUS
<1>2. \E f : Def(f)
  <2>1. \A j \in 1 .. n, y \in Int : step[<<j, y>>] = y + value[j] /\ y + value[j] \in Int
    OBVIOUS
  <2>2. PICK f : Records(f, n, Int, 0, step)
    <3>1. \A j \in 1 .. n, y \in Int : step[<<j, y>>] \in Int
      BY <2>1
    <3>2. 0 \in Int
      OBVIOUS
    <3> HIDE DEF step
    <3> QED
      BY <3>1, <3>2, StepsExist
  <2> HIDE DEF step
  <2>3. f \in [0 .. n -> Int] /\ f[0] = 0 /\ \A j \in 1 .. n : f[j] = step[<<j, f[j - 1]>>]
    BY <2>2 DEF Records
  <2>4. ASSUME NEW j \in 0 .. n PROVE f[j] = IF j = 0 THEN 0 ELSE f[j - 1] + value[j]
    <3>1. CASE j = 0
      BY <2>3, <3>1
    <3>2. CASE j # 0
      <4>1. j \in 1 .. n /\ f[j - 1] \in Int
        BY <2>3, <3>2
      <4>2. f[j] = step[<<j, f[j - 1]>>]
        BY <2>3, <4>1
      <4>3. f[j] = f[j - 1] + value[j]
        BY <2>1, <4>1, <4>2
      <4> QED
        BY <3>2, <4>3
    <3> QED
      BY <3>1, <3>2
  <2>5. f = [j \in 0 .. n |-> f[j]]
    BY <2>3
  <2>6. f = [j \in 0 .. n |-> IF j = 0 THEN 0 ELSE f[j - 1] + value[j]]
    BY <2>4, <2>5
  <2>7. Def(f)
    BY <1>1, <2>6
  <2> QED
    BY <2>7
<1> DEFINE g == CHOOSE f : Def(f)
<1>3. Def(g)
  <2> HIDE DEF Def
  <2> QED
    BY <1>2
<1>4. PartialSums(value) = g
  BY DEF PartialSums
<1> HIDE DEF g
<1>5. g = [j \in 0 .. n |-> IF j = 0 THEN 0 ELSE g[j - 1] + value[j]]
  BY <1>1, <1>3
<1>6. g[0] = 0 /\ \A j \in 1 .. n : g[j] = g[j - 1] + value[j]
  BY <1>5
<1> DEFINE T == {j \in 0 .. n : g[j] \in Int}
<1>7. 0 \in T
  BY <1>6
<1>8. ASSUME NEW j \in 1 .. n, j - 1 \in T PROVE j \in T
  <2>1. g[j] = g[j - 1] + value[j] /\ value[j] \in Int /\ g[j - 1] \in Int
    BY <1>6, <1>8
  <2> QED
    BY <2>1
<1>9. 0 .. n \subseteq T
  <2> HIDE DEF T
  <2> QED
    BY <1>7, <1>8, UpTo
<1>10. \A j \in 0 .. n : g[j] \in Int
  BY <1>9
<1>11. g \in [0 .. n -> Int]
  BY <1>5, <1>10
<1> QED
  BY <1>4, <1>6, <1>11

(* Terms of 0 add nothing.                                                 *)
LEMMA PartialSumsFlat ==
  ASSUME NEW n \in Nat, NEW value \in [1 .. n -> Int],
         NEW a \in 0 .. n, NEW b \in a .. n, \A j \in a + 1 .. b : value[j] = 0
  PROVE  PartialSums(value)[b] = PartialSums(value)[a]
<1> DEFINE sum == PartialSums(value)
           T == {d \in 0 .. b - a : sum[a + d] = sum[a]}
<1>1. sum \in [0 .. n -> Int] /\ \A j \in 1 .. n : sum[j] = sum[j - 1] + value[j]
  BY PartialSumsStep
<1> HIDE DEF sum
<1>2. b - a \in Nat /\ a + 0 = a /\ a + (b - a) = b
  OBVIOUS
<1>3. 0 \in T
  BY <1>2
<1>4. ASSUME NEW d \in 1 .. b - a, d - 1 \in T PROVE d \in T
  <2> DEFINE j == a + d
  <2>1. j \in a + 1 .. b /\ j \in 1 .. n /\ j - 1 = a + (d - 1)
    OBVIOUS
  <2> HIDE DEF j
  <2>2. sum[j] = sum[j - 1] + value[j] /\ value[j] = 0 /\ sum[j - 1] = sum[a]
    BY <1>1, <1>4, <2>1
  <2>3. sum[a] \in Int
    BY <1>1
  <2>4. sum[j] = sum[a]
    BY <2>2, <2>3
  <2> QED
    BY <2>4 DEF j
<1>5. b - a \in T
  <2> HIDE DEF T
  <2>1. 0 .. b - a \subseteq T
    BY <1>2, <1>3, <1>4, UpTo
  <2> QED
    BY <1>2, <2>1
<1> QED
  BY <1>2, <1>5 DEF sum

-----------------------------------------------------------------------------
(* The totals.                                                             *)

LEMMA TableRatings == \A t \in Tests : test_set[t].rating \in Nat \ {0}
<1> SUFFICES ASSUME NEW t \in Tests PROVE test_set[t].rating \in Nat \ {0}
  OBVIOUS
<1>1. \/ t = 1 \/ t = 2 \/ t = 3 \/ t = 4 \/ t = 5 \/ t = 6 \/ t = 7
      \/ t = 8 \/ t = 9 \/ t = 10 \/ t = 11 \/ t = 12 \/ t = 13 \/ t = 14
      \/ t = 15 \/ t = 16 \/ t = 17 \/ t = 18 \/ t = 19 \/ t = 20 \/ t = 21
      \/ t = 22 \/ t = 23 \/ t = 24 \/ t = 25 \/ t = 26
  BY Table
<1> QED
  BY <1>1 DEF test_set, Row

(* The number of tests gone over before the one at j.                      *)
Gone(j) == Cardinality({t \in 1 .. j - 1 : Selected(t)})

ScoreType == [points : Nat, max_points : Nat, errors : Nat, rows : Int]

(* What a rating the options give may be, and what the totals are while    *)
(* no signal has jumped into a frame that had returned.                    *)
Tally ==
  /\ pc # "usage" => opt.global_rating \in Nat
  /\ score \in ScoreType /\ score.points <= score.max_points
  /\ pc = "args" =>
       score = [points |-> 0, max_points |-> 0, errors |-> 0, rows |-> 0]
  /\ ScoreAddsUp

LEMMA RatingsTyped ==
  ASSUME opt.global_rating \in Nat
  PROVE  /\ RatingsSelected \in [1 .. 26 -> Int]
         /\ \A t \in Tests : Rating(t) \in Nat \ {0}
<1>1. \A t \in Tests : Rating(t) \in Nat \ {0}
  BY TableRatings DEF Rating
<1>2. Tests = 1 .. 26
  BY Table
<1> QED
  BY <1>1, <1>2 DEF RatingsSelected

LEMMA GoneNext ==
  ASSUME NEW j \in Nat, j >= 1
  PROVE  Gone(j) \in Nat /\ (Selected(j) => Gone(j + 1) = Gone(j) + 1)
<1> DEFINE T == {t \in 1 .. j - 1 : Selected(t)}
<1>1. IsFiniteSet(T) /\ Cardinality(T) \in Nat
  <2>1. j - 1 \in Int /\ 1 \in Int
    OBVIOUS
  <2>2. IsFiniteSet(1 .. j - 1)
    BY <2>1, FS_Interval
  <2>3. T \subseteq 1 .. j - 1
    OBVIOUS
  <2> HIDE DEF T
  <2>4. IsFiniteSet(T)
    BY <2>2, <2>3, FS_Subset
  <2> QED
    BY <2>4, FS_CardinalityType
<1>2. ASSUME Selected(j) PROVE Gone(j + 1) = Gone(j) + 1
  <2>1. {t \in 1 .. (j + 1) - 1 : Selected(t)} = T \union {j}
    BY <1>2
  <2>2. j \notin T
    OBVIOUS
  <2> HIDE DEF T
  <2>3. Cardinality(T \union {j}) = Cardinality(T) + 1
    BY <1>1, <2>2, FS_AddElement
  <2> QED
    BY <2>1, <2>3 DEF Gone, T
<1> QED
  BY <1>1, <1>2 DEF Gone

(* What depends on the options alone is the same while they are.           *)
LEMMA TotalsPrime ==
  ASSUME opt' = opt
  PROVE  /\ PartialSums(RatingsSelected)' = PartialSums(RatingsSelected)
         /\ \A j : Gone(j)' = Gone(j)
<1>1. RatingsSelected' = RatingsSelected
  BY DEF RatingsSelected, Selected, Rating
<1>2. \A j : Gone(j)' = Gone(j)
  BY DEF Gone, Selected
<1> QED
  BY <1>1, <1>2

Scored ==
  /\ score.max_points = PartialSums(RatingsSelected)[i - 1]
  /\ score.points = score.max_points <=> score.errors = 0
  /\ score.rows = IF opt.grade THEN Gone(i) ELSE Gone(i) - score.errors

LEMMA ScoredIs ==
  ScoreAddsUp <=> (~wild /\ pc \notin {"args", "usage", "bad argument"} => Scored)
BY DEF ScoreAddsUp, Scored, Gone

LEMMA ScoredIsNext ==
  ScoreAddsUp' <=> (~wild' /\ pc' \notin {"args", "usage", "bad argument"} => Scored')
BY DEF ScoreAddsUp, Scored, Gone

LEMMA ScoredKept ==
  ASSUME opt' = opt, i' = i, score' = score, Scored
  PROVE  Scored'
BY TotalsPrime DEF Scored

LEMMA TallyInit == Init => Tally
<1> SUFFICES ASSUME Init PROVE Tally
  OBVIOUS
<1>1. /\ pc = "args" /\ opt.global_rating = 0
      /\ score = [points |-> 0, max_points |-> 0, errors |-> 0, rows |-> 0]
  BY DEF Init
<1>2. ScoreAddsUp
  BY <1>1, ScoredIs
<1> QED
  BY <1>1, <1>2 DEF Tally, ScoreType

LEMMA TallyParseOption == IInv /\ Tally /\ ParseOption => Tally'
<1> SUFFICES ASSUME IInv, Tally, ParseOption PROVE Tally'
  OBVIOUS
<1> DEFINE o == line[optind]
<1>1. /\ pc = "args" /\ score' = score /\ optind <= Len(line)
      /\ IF o.opt = "123" THEN SetArgument(o.k, o.arg) ELSE SetOption(o)
  BY DEF ParseOption
<1>2. o \in Options /\ opt \in OptType
  <2>1. line \in Seq(Options) /\ optind \in 1 .. Len(line) + 1 /\ opt \in OptType
    BY <1>1 DEF IInv, Typed, Reading
  <2>2. optind \in 1 .. Len(line)
    BY <1>1, <2>1
  <2> QED
    BY <2>1, <2>2
<1>3. opt.global_rating \in Nat
  BY <1>1 DEF Tally
<1> HIDE DEF o
<1>4. /\ pc' \in {"args", "usage", "bad argument"}
      /\ pc' # "usage" => opt'.global_rating \in Nat
  <2>1. CASE o.opt = "123"
    BY <1>1, <1>2, <1>3, <2>1 DEF SetArgument, OptType
  <2>2. CASE o.opt = "g"
    BY <1>1, <1>2, <1>3, <2>2 DEF SetOption, Usage, OptType
  <2>3. CASE o.opt = "f"
    BY <1>1, <1>2, <1>3, <2>3 DEF SetOption, Usage, OptType
  <2>4. CASE o.opt = "T"
    BY <1>1, <1>2, <1>3, <2>4 DEF SetOption, Usage, OptType
  <2>5. CASE o.opt = "r"
    <3>1. /\ opt' = [opt EXCEPT !.global_rating = o.arg]
          /\ IF o.arg < 0 THEN pc' = "usage" ELSE pc' = pc
      BY <1>1, <2>5 DEF SetOption, Usage
    <3>2. o.arg \in Int
      BY <1>2, <2>5, OptionTypes
    <3>3. opt'.global_rating = o.arg
      BY <1>2, <3>1 DEF OptType
    <3>4. o.arg < 0 \/ o.arg \in Nat
      BY <3>2
    <3> QED
      BY <1>1, <3>1, <3>3, <3>4
  <2>6. CASE o.opt \in {"h", "?"}
    BY <1>1, <1>2, <1>3, <2>6 DEF SetOption, Usage, OptType
  <2>7. o.opt \in {"g", "h", "?", "f", "T", "r", "123"}
    BY <1>2, OptionTypes
  <2> QED
    BY <2>1, <2>2, <2>3, <2>4, <2>5, <2>6, <2>7
<1>5. ScoreAddsUp'
  BY <1>4, ScoredIsNext
<1> QED
  BY <1>1, <1>4, <1>5 DEF Tally

LEMMA TallyEndOptions == IInv /\ Tally /\ EndOptions => Tally'
<1> SUFFICES ASSUME IInv, Tally, EndOptions PROVE Tally'
  OBVIOUS
<1>1. /\ pc = "args" /\ pc' = "select" /\ opt' = opt /\ i' = i /\ score' = score
  BY DEF EndOptions
<1>2. /\ i = 1 /\ opt.global_rating \in Nat
      /\ score = [points |-> 0, max_points |-> 0, errors |-> 0, rows |-> 0]
  BY <1>1 DEF IInv, Pending, Tally
<1>3. Scored
  <2>1. PartialSums(RatingsSelected)[0] = 0
    BY <1>2, RatingsTyped, PartialSumsStep
  <2>2. {t \in 1 .. 1 - 1 : Selected(t)} = {}
    OBVIOUS
  <2>3. Gone(1) = 0
    BY <2>2, FS_EmptySet DEF Gone
  <2> QED
    BY <1>2, <2>1, <2>3 DEF Scored
<1>4. ScoreAddsUp'
  BY <1>1, <1>3, ScoredKept, ScoredIsNext
<1> QED
  BY <1>1, <1>2, <1>4 DEF Tally

(* The tests passed over add nothing.                                      *)
LEMMA TallyStartTest == IInv /\ Tally /\ StartTest => Tally'
<1> SUFFICES ASSUME IInv, Tally, StartTest PROVE Tally'
  OBVIOUS
<1>1. PICK j \in Tests : NextTest(j) /\ i' = j
  BY DEF StartTest
<1>2. pc = "select" /\ pc' = "gen" /\ opt' = opt /\ score' = score /\ wild' = wild
  BY DEF StartTest, sigvars
<1>3. /\ i \in 1 .. 27 /\ j \in 1 .. 26 /\ j >= i
      /\ \A k \in i .. j - 1 : ~Selected(k)
  BY <1>1, Table DEF IInv, TypeOK, NextTest
<1>4. opt.global_rating \in Nat
  BY <1>2 DEF Tally
<1>5. ASSUME Scored PROVE Scored'
  <2>1. PartialSums(RatingsSelected)[j - 1] = PartialSums(RatingsSelected)[i - 1]
    <3>1. RatingsSelected \in [1 .. 26 -> Int]
      BY <1>4, RatingsTyped
    <3>2. 26 \in Nat /\ i - 1 \in 0 .. 26 /\ j - 1 \in i - 1 .. 26
      BY <1>3
    <3>3. ASSUME NEW k \in (i - 1) + 1 .. j - 1 PROVE RatingsSelected[k] = 0
      <4>1. k \in i .. j - 1 /\ k \in 1 .. 26
        BY <1>3
      <4>2. ~Selected(k) /\ k \in Tests
        BY <1>3, <4>1, Table
      <4> QED
        BY <4>2 DEF RatingsSelected
    <3> QED
      BY <3>1, <3>2, <3>3, PartialSumsFlat
  <2>2. Gone(j) = Gone(i)
    <3>1. \A t \in 1 .. j - 1 : Selected(t) => t \in 1 .. i - 1
      BY <1>3
    <3>2. \A t \in 1 .. i - 1 : t \in 1 .. j - 1
      BY <1>3
    <3>3. {t \in 1 .. j - 1 : Selected(t)} = {t \in 1 .. i - 1 : Selected(t)}
      BY <3>1, <3>2
    <3> QED
      BY <3>3 DEF Gone
  <2>3. Gone(i)' = Gone(i)
    BY <1>1, <1>2, <2>2 DEF Gone, Selected
  <2> QED
    BY <1>1, <1>2, <1>5, <2>1, <2>3, TotalsPrime DEF Scored
<1>6. ScoreAddsUp'
  BY <1>2, <1>5, ScoredIs, ScoredIsNext DEF Tally
<1> QED
  BY <1>2, <1>4, <1>6 DEF Tally

(* A test that is scored adds its rating to the maximum, and to the points *)
(* only without an error: the two part at the first error, for good.       *)
LEMMA TallyScore == IInv /\ Tally /\ Score => Tally'
<1> SUFFICES ASSUME IInv, Tally, Score PROVE Tally'
  OBVIOUS
<1> DEFINE terrors == IF verdict = "passed" THEN 0 ELSE 1
           r == Rating(i)
<1>1. /\ pc = "score" /\ pc' = "select" /\ opt' = opt /\ i' = i + 1 /\ wild' = wild
      /\ score' = AddResult(score, terrors)
  BY DEF Score, sigvars
<1>2. i \in 1 .. 26 /\ i \in Tests /\ Selected(i)
  BY <1>1, Table DEF IInv, TypeOK, Pending, Running
<1>3. /\ opt.global_rating \in Nat /\ score \in ScoreType
      /\ score.points <= score.max_points
  BY <1>1 DEF Tally
<1>4. r \in Nat \ {0} /\ terrors \in {0, 1}
  BY <1>2, <1>3, RatingsTyped
<1>5. /\ score'.points = score.points + (IF terrors = 0 THEN r ELSE 0)
      /\ score'.max_points = score.max_points + r
      /\ score'.errors = score.errors + terrors
      /\ score'.rows = score.rows + (IF opt.grade \/ terrors < 1 THEN 1 ELSE 0)
      /\ score' = [points |-> score'.points, max_points |-> score'.max_points,
                   errors |-> score'.errors, rows |-> score'.rows]
  BY <1>1 DEF AddResult
<1> HIDE DEF terrors, r
<1>6. score' \in ScoreType /\ score'.points <= score'.max_points
  BY <1>3, <1>4, <1>5 DEF ScoreType
<1>7. ASSUME Scored PROVE Scored'
  <2>1. PartialSums(RatingsSelected)[i] = PartialSums(RatingsSelected)[i - 1] + r
    <3>1. RatingsSelected[i] = r
      BY <1>2 DEF RatingsSelected, r
    <3>2. RatingsSelected \in [1 .. 26 -> Int]
      BY <1>3, RatingsTyped
    <3> QED
      BY <1>2, <3>1, <3>2, PartialSumsStep
  <2>2. Gone(i) \in Nat /\ Gone(i + 1) = Gone(i) + 1
    BY <1>2, GoneNext
  <2>3. Gone(i)' = Gone(i) + 1
    <3>1. Gone(i)' = Gone(i + 1)
      BY <1>1 DEF Gone, Selected
    <3> QED
      BY <2>2, <3>1
  <2>4. /\ score.max_points = PartialSums(RatingsSelected)[i - 1]
        /\ score.points = score.max_points <=> score.errors = 0
        /\ score.rows = IF opt.grade THEN Gone(i) ELSE Gone(i) - score.errors
    BY <1>7 DEF Scored
  <2>5. score'.max_points = PartialSums(RatingsSelected)[i]
    BY <1>5, <2>1, <2>4
  <2>6. score'.points = score'.max_points <=> score'.errors = 0
    <3>1. /\ score.points \in Nat /\ score.max_points \in Nat /\ score.errors \in Nat
      BY <1>3 DEF ScoreType
    <3> QED
      BY <1>3, <1>4, <1>5, <2>4, <3>1
  <2>7. score'.rows = IF opt.grade THEN Gone(i) + 1 ELSE Gone(i) + 1 - score'.errors
    <3>1. score.rows \in Int /\ score.errors \in Nat
      BY <1>3 DEF ScoreType
    <3>2. CASE opt.grade
      BY <1>5, <2>4, <3>2
    <3>3. CASE ~opt.grade
      BY <1>4, <1>5, <2>2, <2>4, <3>1, <3>3
    <3> QED
      BY <3>2, <3>3
  <2>8. i' - 1 = i
    BY <1>1, <1>2
  <2>9. (score.max_points = PartialSums(RatingsSelected)[i - 1])'
    BY <1>1, <2>5, <2>8, TotalsPrime
  <2>10. opt'.grade = opt.grade
    BY <1>1
  <2>11. score'.rows = IF opt'.grade THEN Gone(i)' ELSE Gone(i)' - score'.errors
    <3>1. score'.errors \in Nat /\ score'.rows \in Int /\ Gone(i) + 1 \in Int
      BY <1>6, <2>2 DEF ScoreType
    <3> DEFINE n == Gone(i)'
    <3>2. n = Gone(i) + 1
      BY <2>3
    <3> HIDE DEF n
    <3>3. score'.rows = IF opt'.grade THEN n ELSE n - score'.errors
      BY <2>2, <2>7, <2>10, <3>1, <3>2
    <3> QED
      BY <3>3 DEF n
  <2> QED
    BY <2>6, <2>9, <2>11 DEF Scored
<1>8. ScoreAddsUp'
  BY <1>1, <1>7, ScoredIs, ScoredIsNext DEF Tally
<1> QED
  BY <1>1, <1>3, <1>6, <1>8 DEF Tally

(* The other steps leave the totals as they are.                           *)
LEMMA TallyKept ==
  ASSUME Tally, UNCHANGED <<opt, score>>, pc # "usage", pc' # "args",
         wild' \/ (UNCHANGED <<i, wild>> /\ pc \notin {"args", "bad argument"})
  PROVE  Tally'
<1>1. ScoreAddsUp'
  BY ScoredKept, ScoredIs, ScoredIsNext DEF Tally
<1> QED
  BY <1>1 DEF Tally

LEMMA TallyNext == IInv /\ Tally /\ [Next]_vars => Tally'
<1> SUFFICES ASSUME IInv, Tally, [Next]_vars PROVE Tally'
  OBVIOUS
<1>1. CASE ParseOption \/ EndOptions \/ StartTest \/ Score
  BY <1>1, TallyParseOption, TallyEndOptions, TallyStartTest, TallyScore
<1>2. CASE EndTests \/ GenVals \/ SaveFrame \/ SetAlarm \/ TestValue \/ EndValues
  <2>1. /\ UNCHANGED <<opt, score, i, wild>> /\ pc # "usage" /\ pc' # "args"
        /\ pc \notin {"args", "bad argument"}
    BY <1>2 DEF EndTests, GenVals, SaveFrame, SetAlarm, TestValue, EndValues, sigvars
  <2> QED
    BY <2>1, TallyKept
<1>3. CASE Timeout
  <2>1. /\ UNCHANGED <<opt, score, i, wild>> /\ pc # "usage" /\ pc' # "args"
        /\ pc \notin {"args", "bad argument"}
    BY <1>3 DEF Timeout, Deliver, FrameIsLive
  <2> QED
    BY <2>1, TallyKept
<1>4. CASE StrayTimeout
  <2>1. UNCHANGED <<opt, score>> /\ wild' /\ pc # "usage" /\ pc' # "args"
    BY <1>4 DEF StrayTimeout, Deliver, Final
  <2> QED
    BY <2>1, TallyKept
<1>5. CASE Done \/ UNCHANGED vars
  <2>1. UNCHANGED <<pc, opt, i, score, wild>>
    BY <1>5 DEF Done, vars, sigvars
  <2>2. ScoreAddsUp'
    BY <2>1, ScoredKept, ScoredIs, ScoredIsNext DEF Tally
  <2> QED
    BY <2>1, <2>2 DEF Tally
<1> QED
  BY <1>1, <1>2, <1>3, <1>4, <1>5 DEF Next, Step

(* The points, the maximum, the errors and the rows printed are those of   *)
(* the tests gone over, for any ratings and any signals that arrive while  *)
(* the frame they jump to is there.                                        *)
THEOREM TotalsAddUp == Spec => []ScoreAddsUp
<1>1. Init => Tally
  BY TallyInit
<1>2. IInv /\ Tally /\ [Next]_vars => Tally'
  BY TallyNext
<1>3. Tally => ScoreAddsUp
  BY DEF Tally
<1>4. QED
  BY <1>1, <1>2, <1>3, Invariance, PTL DEF Spec
=============================================================================
