---------------------------- MODULE DeviceCalls ----------------------------
(***************************************************************************)
(* The functions of cuda_runtime.cu as owners of device resources.  Each   *)
(* one builds objects that hold something to give back: a DeviceScope the  *)
(* caller's device, a Buffer its memory, an Event its handle.  On the      *)
(* normal path close() gives it back and throws if CUDA refuses; then the  *)
(* destructors run, newest object first, and give back what is left,       *)
(* reporting a refusal.  Every CUDA call and host allocation can fail.     *)
(*                                                                         *)
(* One host thread makes one call after another.  The current device is a  *)
(* thread's own, and threads share nothing here but the built matrices,    *)
(* each of which the thread that gives up its last pointer destroys.       *)
(***************************************************************************)
EXTENDS Integers, Sequences

CONSTANTS
    Devices,        \* the devices of the machine; the library works on device 0
    Capacity        \* bound of the model: the number of matrices that callers hold

ASSUME DevicesAssumption == 0 \in Devices /\ Capacity \in Nat

Calls == {"info", "scores", "build", "persistent", "destroy"}

\* The objects of a call, in the order in which they are constructed.  The
\* matrix that ~CudaIndex() destroys is there before its DeviceScope is.
Objects == [c \in Calls |->
    CASE c = "info"       -> <<"device">>
      [] c = "scores"     -> <<"device", "vectors", "query", "scores", "begin", "end">>
      [] c = "build"      -> <<"device", "vectors">>
      [] c = "persistent" -> <<"device", "query", "scores", "begin", "end">>
      [] c = "destroy"    -> <<"vectors", "device">>]

\* Mutant: the device is given back before what was allocated on it.
ClosesDeviceFirst == [c \in Calls |->
    CASE c \in {"info", "build"} -> <<"device">>
      [] c = "scores"     -> <<"device", "end", "begin", "scores", "query", "vectors">>
      [] c = "persistent" -> <<"device", "end", "begin", "scores", "query">>
      [] c = "destroy"    -> <<"vectors">>]

\* The objects that the normal path closes, in that order.
Closes == [c \in Calls |->
    CASE c \in {"info", "build"} -> <<"device">>
      [] c = "scores"     -> <<"end", "begin", "scores", "query", "vectors", "device">>
      [] c = "persistent" -> <<"end", "begin", "scores", "query", "device">>
      [] c = "destroy"    -> <<"vectors">>]

VARIABLES
    current,    \* the thread's current device
    op, phase,  \* the call, and which part of it runs
    built,      \* the number of its objects that are constructed
    closed,     \* the number of its close() calls that are done
    due,        \* the objects that still have something to give back
    previous,   \* DeviceScope::previous_
    allocated,  \* the call's memory and events that exist on the device
    matrices,   \* the number of matrices that callers hold
    result,     \* what the call returns or throws
    home,       \* history: the device that was current when the call began
    lost        \* history: the objects of the call that CUDA refused to take back

vars == <<current, op, phase, built, closed, due, previous, allocated,
          matrices, result, home, lost>>

Init ==
    /\ current \in Devices
    /\ op = "info" /\ phase = "idle"
    /\ built = 0 /\ closed = 0
    /\ due = {}
    /\ previous = 0
    /\ allocated = {}
    /\ matrices = 0
    /\ result = "none"
    /\ home = current
    /\ lost = {}

\* Between two calls the application selects another device.
SelectDevice(d) ==
    /\ phase = "idle"
    /\ current' = d
    /\ home' = d
    /\ lost' = {}
    /\ UNCHANGED <<op, phase, built, closed, due, previous, allocated, matrices, result>>

Enter(c) ==
    /\ phase = "idle"
    /\ op' = c
    /\ phase' = "construct"
    /\ closed' = 0
    /\ result' = "none"
    /\ home' = current
    /\ lost' = {}
    /\ UNCHANGED <<current, previous>>

\* A query of a built matrix has its caller hold one; a build adds one.
Begin(c) ==
    /\ c # "destroy"
    /\ c = "persistent" => matrices > 0
    /\ c = "build" => matrices < Capacity
    /\ Enter(c)
    /\ UNCHANGED <<built, due, allocated, matrices>>

\* Mutant: a pointer is given up twice.
BeginDestroyAgain ==
    /\ Enter("destroy")
    /\ matrices' = matrices - 1
    /\ built' = 1
    /\ due' = {"vectors"}
    /\ allocated' = {"vectors"}

\* The last pointer to a matrix goes.
BeginDestroy ==
    /\ matrices > 0
    /\ Enter("destroy")
    /\ matrices' = matrices - 1
    /\ built' = 1
    /\ due' = {"vectors"}
    /\ allocated' = {"vectors"}

\* DeviceScope() selects device 0, unless it is current already.
SelectZero ==
    /\ previous' = current
    /\ current' = 0
    /\ due' = IF current = 0 THEN due ELSE due \cup {"device"}
    /\ UNCHANGED allocated

Construct ==
    /\ phase = "construct"
    /\ LET o == Objects[op][built + 1]
       IN  IF o = "device" THEN SelectZero
           ELSE /\ allocated' = allocated \cup {o}
                /\ due' = due \cup {o}
                /\ UNCHANGED <<current, previous>>
    /\ built' = built + 1
    /\ phase' = IF built' < Len(Objects[op]) THEN "construct"
                ELSE IF op = "destroy" THEN "close" ELSE "work"
    /\ UNCHANGED <<op, closed, matrices, result, home, lost>>

\* Copies, launch and synchronisation succeed.
Work ==
    /\ phase = "work"
    /\ result' = "value"
    /\ phase' = "close"
    /\ UNCHANGED <<current, op, built, closed, due, previous, allocated, matrices, home, lost>>

\* device_info() finds no device, or one that takes no work.
Unavailable ==
    /\ op = "info"
    /\ \/ phase = "construct" /\ phase' = "exit"
       \/ phase = "work" /\ phase' = "close"
    /\ result' = "unavailable"
    /\ UNCHANGED <<current, op, built, closed, due, previous, allocated, matrices, home, lost>>

\* A constructor, or anything on the way to the results, throws.
Throw ==
    /\ phase \in {"construct", "work"}
    /\ result' = "threw"
    /\ phase' = "exit"
    /\ UNCHANGED <<current, op, built, closed, due, previous, allocated, matrices, home, lost>>

----------------------------------------------------------------------------
(* Giving back: CUDA takes o, or refuses.  Memory that it refuses to free  *)
(* is out of the program's reach, a device that it refuses stays selected. *)

Takes(o) ==
    /\ IF o = "device" THEN current' = previous ELSE UNCHANGED current
    /\ allocated' = allocated \ {o}
    /\ UNCHANGED lost

Refuses(o) ==
    /\ allocated' = allocated \ {o}
    /\ lost' = lost \cup {o}
    /\ UNCHANGED current

\* Mutant: close() clears the handle only when CUDA took it back.
CloseClearsLast ==
    /\ phase = "close"
    /\ closed < Len(Closes[op])
    /\ LET o == Closes[op][closed + 1]
       IN  \/ /\ IF o \in due THEN Takes(o) ELSE UNCHANGED <<current, allocated, lost>>
              /\ due' = due \ {o}
              /\ UNCHANGED <<phase, result>>
           \/ /\ o \in due /\ Refuses(o)
              /\ phase' = "exit" /\ result' = "threw"
              /\ UNCHANGED due
    /\ closed' = closed + 1
    /\ UNCHANGED <<op, built, previous, matrices, home>>

\* close() clears the handle, whatever CUDA answers, and throws if it refuses.
Close ==
    /\ phase = "close"
    /\ closed < Len(Closes[op])
    /\ LET o == Closes[op][closed + 1]
       IN  /\ due' = due \ {o}
           /\ \/ /\ IF o \in due THEN Takes(o) ELSE UNCHANGED <<current, allocated, lost>>
                 /\ UNCHANGED <<phase, result>>
              \/ /\ o \in due /\ Refuses(o)
                 /\ phase' = "exit" /\ result' = "threw"
    /\ closed' = closed + 1
    /\ UNCHANGED <<op, built, previous, matrices, home>>

\* Everything is closed; cuda_build_index() hands its matrix to the caller.
Return ==
    /\ phase = "close"
    /\ closed = Len(Closes[op])
    /\ phase' = "exit"
    /\ IF op = "build"
       THEN /\ matrices' = matrices + 1
            /\ due' = due \ {"vectors"}
            /\ allocated' = allocated \ {"vectors"}
       ELSE UNCHANGED <<matrices, due, allocated>>
    /\ UNCHANGED <<current, op, built, closed, previous, result, home, lost>>

\* Mutant: DeviceScope has no destructor.
DestroyAllButScope ==
    /\ phase = "exit"
    /\ built > 0
    /\ LET o == Objects[op][built]
       IN  /\ due' = due \ {o}
           /\ IF o \in due /\ o # "device"
              THEN Takes(o) \/ Refuses(o)
              ELSE UNCHANGED <<current, allocated, lost>>
    /\ built' = built - 1
    /\ UNCHANGED <<op, phase, closed, previous, matrices, result, home>>

\* The newest object is destroyed.  (A matrix whose build failed is destroyed
\* under a second DeviceScope, which finds device 0 and changes nothing.)
Destroy ==
    /\ phase = "exit"
    /\ built > 0
    /\ LET o == Objects[op][built]
       IN  /\ due' = due \ {o}
           /\ IF o \in due THEN Takes(o) \/ Refuses(o) ELSE UNCHANGED <<current, allocated, lost>>
    /\ built' = built - 1
    /\ UNCHANGED <<op, phase, closed, previous, matrices, result, home>>

\* The call is over; device_info() and ~CudaIndex() let no exception out.
End ==
    /\ phase = "exit"
    /\ built = 0
    /\ phase' = "idle"
    /\ result' = IF result = "threw" /\ op \in {"info", "destroy"} THEN "unavailable" ELSE result
    /\ UNCHANGED <<current, op, built, closed, due, previous, allocated, matrices, home, lost>>

----------------------------------------------------------------------------
Next ==
    \/ \E d \in Devices : SelectDevice(d)
    \/ \E c \in Calls : Begin(c)
    \/ BeginDestroy
    \/ Construct \/ Work \/ Unavailable \/ Throw
    \/ Close \/ Return \/ Destroy \/ End

Spec == Init /\ [][Next]_vars

----------------------------------------------------------------------------
(* Properties *)

Resources == {"vectors", "query", "scores", "begin", "end"}
Built == {Objects[op][n] : n \in 1..built}

TypeOK ==
    /\ current \in Devices /\ previous \in Devices /\ home \in Devices
    /\ op \in Calls
    /\ phase \in {"idle", "construct", "work", "close", "exit"}
    /\ built \in 0..Len(Objects[op])
    /\ closed \in 0..Len(Closes[op])
    /\ due \subseteq Resources \cup {"device"}
    /\ lost \subseteq Resources \cup {"device"}
    /\ allocated \subseteq Resources
    /\ matrices \in 0..Capacity
    /\ result \in {"none", "value", "unavailable", "threw"}

\* Wherever a call fails, in its work, in a close() or in a destructor, what
\* exists on the device has exactly one object that will still release it, and
\* no object releases what is gone: nothing is freed twice, and nothing is left
\* behind but what CUDA itself refused to free.
ReleasedExactlyOnce ==
    /\ allocated = due \ {"device"}
    /\ due \subseteq Built
    /\ phase = "idle" => built = 0

\* ~CudaIndex() has not selected the matrix's device yet, or failed to.
WithoutScope ==
    op = "destroy" /\ built = 1 /\ (phase = "construct" \/ result = "threw")

\* Memory is allocated, used and freed while its own device is current, and
\* the caller's device comes back after the last of it: a matrix is freed under
\* its destructor's DeviceScope.  Two exceptions: a built matrix on its way to
\* the caller, and one whose destructor could not select its device.
UsedOnOwnDevice ==
    allocated # {} =>
        \/ current = 0
        \/ op = "build" /\ phase = "close" /\ closed = Len(Closes[op])
        \/ WithoutScope

\* A call leaves the thread on the device it found it on, however it ends,
\* unless CUDA refuses to go back.  And "normal-path cleanup failures propagate":
\* who gets results, or is told that the device is available, has lost nothing
\* to a cleanup that failed.
CallEndsCleanly ==
    phase = "idle" =>
        /\ current = home \/ "device" \in lost
        /\ result = "value" => lost = {}
=============================================================================
