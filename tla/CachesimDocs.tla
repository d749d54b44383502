---------------------------- MODULE CachesimDocs ----------------------------
(***************************************************************************)
(* What the repository's README says of the simulator and the program does *)
(* not do.  Every property here is violated by Cachesim.                   *)
(***************************************************************************)
EXTENDS Cachesim

(* The presence of -v is what activates verbose mode (README.md:168): a    *)
(* run without it shows no operation.                                      *)
QuietWithoutV == argv.argc = MIN_ARG => verboso = NoOutput

(* The cases README.md:180-184 lists as errors.  A combination of C, E and *)
(* S is taken as invalid when its lines would be smaller than a byte.      *)
BadArguments ==
  \/ argv.argc \notin {MIN_ARG, MAX_ARG}
  \/ ~argv.exists
  \/ ~AllPower2(argv)
  \/ argv.E * argv.S > argv.C
  \/ argv.argc = MAX_ARG /\ ~ValidRange

(* Each of them ends with a message and a status that is not 0, and not by *)
(* a signal (README.md:178).                                               *)
RejectsBadArguments == BadArguments => exit \in {Running, 1}

=============================================================================
