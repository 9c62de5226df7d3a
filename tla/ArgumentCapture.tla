---------------------------- MODULE ArgumentCapture ----------------------------
(***************************************************************************)
(* The captured-argument program of an MLX executable                       *)
(* (src/backend/mlx_metal/executable_argument_capture.zig,                  *)
(* execution_compiled_program.zig, execution_call.zig): a second program     *)
(* that keeps copies of the arguments which do not change from call to call. *)
(* Threads call the executable; the host makes and destroys the backend      *)
(* buffers it passes, and an address may be used again.                    *)
(***************************************************************************)
EXTENDS Integers, Sequences, FiniteSets

CONSTANTS
  CaptureExecutables,  \* [params, donated, identity, control, min, max], see below
  Callers,             \* threads
  Addresses,           \* of backend buffers
  Generations          \* tell the buffers made at one address from each other

(* params: how many parameters; of these, donated: those the plan donates;  *)
(* identity: those that are an output as they are; control: small integers; *)
(* min, max: how many stable arguments the policy asks for.                *)
ASSUME CaptureAssumption ==
  /\ Generations \subseteq Nat
  /\ \A x \in CaptureExecutables :
       /\ x.params \in Nat /\ x.min \in Nat /\ x.max \in Nat
       /\ x.donated \cup x.identity \cup x.control \subseteq 1 .. x.params

VARIABLES
  executable,  \* the executable
  capture,     \* [program, previous, dynamic, captured]: State and what its program holds
  programs,    \* the captured programs that were created and not destroyed
  buffers,     \* at each address, NoBuffer or what the buffer there holds: <<address, generation>>
  caller       \* [pc, arguments, used] of each thread

captureVars == <<executable, capture, programs, buffers, caller>>

NoProgram == 0
NoBuffer == <<>>
ProgramIds == {1, 2}

AllParams == 1 .. executable.params
(* donatedProgramInputIndices: what a run moves out of its arguments.       *)
ConsumedParams == executable.donated \ executable.identity
Live == {a \in Addresses : buffers[a] # NoBuffer}
ArgumentsOf(t) == {caller[t].arguments[p] : p \in DOMAIN caller[t].arguments}
DonatedBy(t) ==
  {caller[t].arguments[p] : p \in executable.donated \cap DOMAIN caller[t].arguments}
Idle == [pc |-> "idle", arguments |-> <<>>, used |-> <<>>]
NoCapture == [program |-> NoProgram, previous |-> <<>>, dynamic |-> {}, captured |-> <<>>]

Uncalled ==
  /\ capture = NoCapture
  /\ programs = {}
  /\ buffers = [a \in Addresses |-> NoBuffer]
  /\ caller = [t \in Callers |-> Idle]

CaptureInit == executable \in CaptureExecutables /\ Uncalled
----------------------------------------------------------------------------
(* The host.                                                               *)

(* What a new buffer holds: nothing that another one holds, or that a capture *)
(* or a call remembers of a former one.                                    *)
Remembered ==
  {buffers[a] : a \in Addresses}
    \cup {capture.captured[p] : p \in DOMAIN capture.captured}
    \cup UNION {{caller[t].used[p] : p \in DOMAIN caller[t].used} : t \in Callers}
FreshGenerations(a) ==
  {g \in Generations : /\ <<a, g>> \notin Remembered
                        /\ \A h \in Generations : h < g => <<a, h>> \in Remembered}

HostMakes(a) ==
  /\ buffers[a] = NoBuffer
  /\ \E g \in FreshGenerations(a) : buffers' = [buffers EXCEPT ![a] = <<a, g>>]
  /\ UNCHANGED <<executable, capture, programs, caller>>

(* The runtime keeps the arguments of a call until it returns.             *)
HostDestroys(a) ==
  /\ a \in Live
  /\ \A t \in Callers : a \notin ArgumentsOf(t)
  /\ buffers' = [buffers EXCEPT ![a] = NoBuffer]
  /\ UNCHANGED <<executable, capture, programs, caller>>

(* executeExecutable, with a compiled program: a donated buffer is no other  *)
(* argument, of this call or of another one.                               *)
HostCalls(t, arguments) ==
  /\ caller[t].pc = "idle"
  /\ \A p \in executable.donated : \A q \in AllParams \ {p} : arguments[p] # arguments[q]
  /\ \A u \in Callers \ {t} :
       /\ \A p \in AllParams : arguments[p] \notin DonatedBy(u)
       /\ \A p \in executable.donated : arguments[p] \notin ArgumentsOf(u)
  /\ caller' = [caller EXCEPT ![t] = [pc |-> "called", arguments |-> arguments, used |-> <<>>]]
  /\ UNCHANGED <<executable, capture, programs, buffers>>
----------------------------------------------------------------------------
(* The state of the capture, under its lock.                               *)

allowsCapture(dynamic) ==
  LET stable == Cardinality(AllParams \ dynamic)
  IN stable > 0 /\ stable >= executable.min /\ stable <= executable.max

InitialDynamic == executable.donated \cup executable.control

(* Mutant: the last parameter is taken for a dynamic one.                  *)
MatchesAllButLast(arguments) ==
  \A p \in (AllParams \ {executable.params}) \ capture.dynamic : capture.previous[p] = arguments[p]
matches(arguments) ==
  /\ capture.previous # <<>>
  /\ \A p \in AllParams \ capture.dynamic : capture.previous[p] = arguments[p]

Reset ==
  /\ capture' = NoCapture
  /\ programs' = programs \ {capture.program}

rememberBaseline(arguments) ==
  /\ capture' = [capture EXCEPT !.previous = arguments]
  /\ UNCHANGED programs

(* pjrtx_mlx_metal_program_create_with_captures copies the arrays of the    *)
(* stable arguments, and fails without one; so may the rest of it.         *)
CreateProgram(arguments, dynamic) ==
  \E id \in ProgramIds \ programs :
    /\ programs' = programs \cup {id}
    /\ capture' = [program |-> id, previous |-> arguments, dynamic |-> dynamic,
                   captured |-> [p \in AllParams \ dynamic |-> buffers[arguments[p]]]]

Goto(t, pc) == caller' = [caller EXCEPT ![t].pc = pc]
(* The program runs, on contents that are remembered here.                 *)
Computes(t, pc, used) ==
  caller' = [caller EXCEPT ![t] = [pc |-> pc, arguments |-> caller[t].arguments, used |-> used]]

(* maybeCreateInitialArgumentCapturedProgram: one program at most, and what *)
(* a failed call had made of it is destroyed.                              *)
MaybeCreateInitial(t) ==
  /\ caller[t].pc = "called"
  /\ \/ /\ capture.program = NoProgram /\ capture.previous = <<>>
        /\ allowsCapture(InitialDynamic)
        /\ Goto(t, "prepared") /\ CreateProgram(caller[t].arguments, InitialDynamic)
     \/ Goto(t, "prepared") /\ UNCHANGED <<capture, programs>>
             \* there is one, it is not allowed, or its creation fails
     \/ /\ capture.program = NoProgram /\ capture.previous = <<>>
        /\ Goto(t, "failed") /\ UNCHANGED <<capture, programs>>
             \* no memory left for the dynamic indices or for the baseline
  /\ UNCHANGED <<executable, buffers>>

(* executeArgumentCapturedProgram.                                         *)
ExecuteCaptured(t) ==
  /\ caller[t].pc = "prepared"
  /\ \/ /\ capture.program = NoProgram
        /\ Goto(t, "uncaptured")
        /\ UNCHANGED <<capture, programs>>
     \/ /\ capture.program # NoProgram /\ ~matches(caller[t].arguments)
        /\ Reset
        /\ Goto(t, "uncaptured")
     \/ /\ capture.program # NoProgram /\ matches(caller[t].arguments)
        /\ \/ Computes(t, "executed", [p \in AllParams |->
                IF p \in capture.dynamic THEN buffers[caller[t].arguments[p]]
                ELSE capture.captured[p]])
           \/ Goto(t, "failed")
        /\ UNCHANGED <<capture, programs>>
  /\ UNCHANGED <<executable, buffers>>

(* executeCompiledProgram over all the arguments: outside the lock.        *)
ExecuteCompiled(t) ==
  /\ caller[t].pc = "uncaptured"
  /\ \/ Computes(t, "updating", [p \in AllParams |-> buffers[caller[t].arguments[p]]])
     \/ Goto(t, "failed")
  /\ UNCHANGED <<executable, capture, programs, buffers>>

ChangedSince(previous, arguments) == {p \in AllParams : previous[p] # arguments[p]}

CaptureIgnored == FALSE                             \* mutant of the next
ProgramStands == capture.program # NoProgram        \* which another call may have made

(* updateArgumentCaptureState: a consumed argument has no array to capture. *)
UpdateCapture(t) ==
  LET arguments == caller[t].arguments
      dynamic == ChangedSince(capture.previous, arguments)
  IN /\ caller[t].pc = "updating"
     /\ \/ /\ ProgramStands
           /\ Goto(t, "executed") /\ UNCHANGED <<capture, programs>>
        \/ /\ ~ProgramStands /\ capture.previous # <<>>
           /\ allowsCapture(dynamic) /\ ConsumedParams \subseteq dynamic
           /\ Goto(t, "executed") /\ CreateProgram(arguments, dynamic)
        \/ /\ ~ProgramStands   \* no baseline, not allowed, or the creation fails
           /\ Goto(t, "executed") /\ rememberBaseline(arguments)
        \/ /\ ~ProgramStands   \* no memory left for the update: the outputs are lost
           /\ Goto(t, "failed") /\ UNCHANGED <<capture, programs>>
     /\ UNCHANGED <<executable, buffers>>

(* The call returns.  The buffers it consumed are gone: those of a failed     *)
(* call are not used again (Execution says what would come of it).          *)
CallReturns(t) ==
  /\ caller[t].pc \in {"executed", "failed"}
  /\ caller' = [caller EXCEPT ![t] = Idle]
  /\ buffers' = [a \in Addresses |->
                   IF \E p \in ConsumedParams : caller[t].arguments[p] = a THEN NoBuffer ELSE buffers[a]]
  /\ UNCHANGED <<executable, capture, programs>>

(* destroyStates: the executable is destroyed, no call is running.         *)
DestroyStates ==
  /\ \A t \in Callers : caller[t].pc = "idle"
  /\ Reset
  /\ caller' = [t \in Callers |-> [Idle EXCEPT !.pc = "gone"]]
  /\ UNCHANGED <<executable, buffers>>

CaptureNext ==
  \/ \E a \in Addresses : HostMakes(a) \/ HostDestroys(a)
  \/ \E t \in Callers :
       \/ \E arguments \in [AllParams -> Live] : HostCalls(t, arguments)
       \/ MaybeCreateInitial(t)
       \/ ExecuteCaptured(t)
       \/ ExecuteCompiled(t)
       \/ UpdateCapture(t)
       \/ CallReturns(t)
  \/ DestroyStates

CaptureSpec == CaptureInit /\ [][CaptureNext]_captureVars
----------------------------------------------------------------------------
(* Properties.                                                             *)

(* The program in use is the only one that was not destroyed, there is none  *)
(* once the executable is gone, and it captured no argument that its run     *)
(* had consumed: whatever calls of other threads created, reset or replaced *)
(* between the steps of a call (execution_call.zig).                       *)
ProgramsAccounted ==
  /\ programs = {capture.program} \ {NoProgram}
  /\ (\E t \in Callers : caller[t].pc = "gone") => programs = {}
  /\ capture.program # NoProgram =>
       /\ DOMAIN capture.captured = AllParams \ capture.dynamic
       /\ DOMAIN capture.captured \cap ConsumedParams = {}
       /\ NoBuffer \notin {capture.captured[p] : p \in DOMAIN capture.captured}

(* A run computes from what its arguments hold, unless it is from what a     *)
(* buffer held that was destroyed since the capture: whichever threads run,  *)
(* and whatever is captured, a call never sees the argument of another.     *)
CaptureFaithful ==
  \A t \in Callers : \A p \in DOMAIN caller[t].used :
    \/ caller[t].used[p] = buffers[caller[t].arguments[p]]
    \/ caller[t].used[p] \notin {buffers[a] : a \in Addresses}

(* "Executes a previously captured MLX program when its stable arguments     *)
(* still match" (execution_compiled_program.zig:177): a run computes from    *)
(* what its arguments hold.                                                *)
CapturedArgumentsMatch ==
  \A t \in Callers : \A p \in DOMAIN caller[t].used :
    caller[t].used[p] = buffers[caller[t].arguments[p]]
================================================================================
