------------------------- MODULE DeviceCallsProofs -------------------------
(***************************************************************************)
(* That the calls of cuda_runtime.cu give back what they took, on whatever *)
(* path they end.  The inductive invariant says, beside the properties,    *)
(* how far each phase has come: what is constructed, what close() has      *)
(* already cleared, and what can have been lost by then.                   *)
(***************************************************************************)
EXTENDS DeviceCalls, TLAPS

\* The facts about the two tables that the proofs need.
LEMMA Plans ==
    ASSUME NEW c \in Calls
    PROVE  /\ Len(Objects[c]) \in Nat \ {0} /\ Len(Closes[c]) \in Nat \ {0}
           /\ \A n \in 1..Len(Objects[c]) : Objects[c][n] \in Resources \cup {"device"}
           /\ \A n \in 1..Len(Closes[c]) : Closes[c][n] \in Resources \cup {"device"}
           /\ c = "destroy" => /\ Len(Objects[c]) = 2 /\ Objects[c][1] = "vectors"
                               /\ Objects[c][2] = "device"
                               /\ Len(Closes[c]) = 1 /\ Closes[c][1] = "vectors"
           /\ c # "destroy" =>
                 /\ \A n \in 1..Len(Objects[c]) : Objects[c][n] = "device" <=> n = 1
                 /\ \A n \in 1..Len(Closes[c]) : Closes[c][n] = "device" <=> n = Len(Closes[c])
           /\ \A n \in 1..Len(Objects[c]) :
                 \/ \E m \in 1..Len(Closes[c]) : Closes[c][m] = Objects[c][n]
                 \/ c = "build" /\ Objects[c][n] = "vectors"
                 \/ c = "destroy" /\ Objects[c][n] = "device"
<1> USE DEF Objects, Closes, Resources
<1>1. CASE c = "info"
  <2>1. Objects[c] = <<"device">> /\ Closes[c] = <<"device">>
    BY <1>1 DEF Calls
  <2> QED
    BY <2>1, <1>1
<1>2. CASE c = "scores"
  <2>1. Objects[c] = <<"device", "vectors", "query", "scores", "begin", "end">>
        /\ Closes[c] = <<"end", "begin", "scores", "query", "vectors", "device">>
    BY <1>2 DEF Calls
  <2> QED
    BY <2>1, <1>2
<1>3. CASE c = "build"
  <2>1. Objects[c] = <<"device", "vectors">> /\ Closes[c] = <<"device">>
    BY <1>3 DEF Calls
  <2> QED
    BY <2>1, <1>3
<1>4. CASE c = "persistent"
  <2>1. Objects[c] = <<"device", "query", "scores", "begin", "end">>
        /\ Closes[c] = <<"end", "begin", "scores", "query", "device">>
    BY <1>4 DEF Calls
  <2> QED
    BY <2>1, <1>4
<1>5. CASE c = "destroy"
  <2>1. Objects[c] = <<"vectors", "device">> /\ Closes[c] = <<"vectors">>
    BY <1>5 DEF Calls
  <2> QED
    BY <2>1, <1>5
<1> QED
  BY <1>1, <1>2, <1>3, <1>4, <1>5 DEF Calls

----------------------------------------------------------------------------
(* The inductive invariant *)

\* How far the call has come in each phase.
Staged ==
    /\ phase = "idle" => built = 0
    /\ phase = "construct" => built < Len(Objects[op]) /\ closed = 0
    /\ phase = "work" => built = Len(Objects[op]) /\ closed = 0 /\ op # "destroy"
    /\ phase = "close" => built = Len(Objects[op])
    /\ phase \in {"construct", "work", "close"} /\ op = "build" => matrices < Capacity

Owned == allocated = due \ {"device"}

DueIsBuilt == \A o \in due : \E n \in 1..built : Objects[op][n] = o

ClosedIsGone == phase = "close" => \A n \in 1..closed : Closes[op][n] \notin due

\* The device that the call found is current, or the scope will bring it back.
HomeKept ==
    IF "device" \in due THEN previous = home /\ current = 0
    ELSE current = home \/ "device" \in lost

\* On the way to the results nothing is lost, and behind them nothing is due.
LostReported ==
    /\ phase \in {"construct", "work"} => lost = {} /\ result = "none"
    /\ phase = "close" => lost = {} /\ (op = "destroy" => result = "none")
    /\ phase = "exit" /\ result = "value" => lost = {} /\ due = {}
    /\ phase = "idle" /\ result = "value" => lost = {}

\* Device 0 is current while something is constructed, and while something
\* allocated is still to be released.  A destroyed matrix that close() did not
\* free is there because its DeviceScope threw.
AtZero ==
    /\ phase \in {"construct", "work"} /\ op # "destroy" /\ built > 0 => current = 0
    /\ phase = "exit" /\ op = "destroy" /\ allocated # {} => result = "threw"
    /\ UsedOnOwnDevice

IInv ==
    /\ TypeOK /\ Staged /\ Owned /\ DueIsBuilt /\ ClosedIsGone
    /\ HomeKept /\ LostReported /\ AtZero

\* When everything is closed, only what the call hands on is still due.
LEMMA AllClosed ==
    ASSUME IInv, phase = "close", closed = Len(Closes[op])
    PROVE  due \subseteq IF op = "build" THEN {"vectors"}
                         ELSE IF op = "destroy" THEN {"device"} ELSE {}
<1> SUFFICES ASSUME NEW o \in due
             PROVE  \/ op = "build" /\ o = "vectors"
                    \/ op = "destroy" /\ o = "device"
  OBVIOUS
<1>1. op \in Calls /\ built = Len(Objects[op])
  BY DEF IInv, TypeOK, Staged
<1>2. PICK n \in 1..Len(Objects[op]) : Objects[op][n] = o
  BY <1>1 DEF IInv, DueIsBuilt
<1>3. \A m \in 1..Len(Closes[op]) : Closes[op][m] # o
  BY DEF IInv, ClosedIsGone
<1> QED
  BY <1>1, <1>2, <1>3, Plans

LEMMA InitEstablishes == Init => IInv
<1> SUFFICES ASSUME Init PROVE IInv
  OBVIOUS
<1>1. "info" \in Calls
  BY DEF Calls
<1>2. Len(Objects["info"]) \in Nat \ {0} /\ Len(Closes["info"]) \in Nat \ {0}
  BY <1>1, Plans
<1>3. TypeOK
  BY <1>1, <1>2, DevicesAssumption DEF Init, TypeOK
<1> QED
  BY <1>2, <1>3 DEF Init, IInv, Staged, Owned, DueIsBuilt, ClosedIsGone, HomeKept,
                    LostReported, AtZero, UsedOnOwnDevice, WithoutScope

LEMMA SelectDevicePreserves ==
    ASSUME IInv, NEW x \in Devices, SelectDevice(x)
    PROVE  IInv'
<1>1. built = 0 /\ due = {}
  BY DEF IInv, Staged, DueIsBuilt, TypeOK, SelectDevice
<1> QED
  BY <1>1 DEF SelectDevice, IInv, TypeOK, Staged, Owned, DueIsBuilt, ClosedIsGone, HomeKept,
              LostReported, AtZero, UsedOnOwnDevice, WithoutScope

LEMMA BeginPreserves ==
    ASSUME IInv, NEW c \in Calls, Begin(c)
    PROVE  IInv'
<1>1. built = 0 /\ due = {} /\ allocated = {}
  BY DEF IInv, Staged, DueIsBuilt, Owned, TypeOK, Begin, Enter
<1>2. Len(Objects[c]) \in Nat \ {0} /\ Len(Closes[c]) \in Nat \ {0}
  BY Plans
<1>3. TypeOK'
  BY <1>1, <1>2 DEF Begin, Enter, IInv, TypeOK
<1> QED
  BY <1>1, <1>2, <1>3 DEF Begin, Enter, IInv, Staged, Owned, DueIsBuilt, ClosedIsGone, HomeKept,
              LostReported, AtZero, UsedOnOwnDevice, WithoutScope

LEMMA BeginDestroyPreserves ==
    ASSUME IInv, BeginDestroy
    PROVE  IInv'
<1>1. "destroy" \in Calls
  BY DEF Calls
<1>2. /\ Len(Objects["destroy"]) = 2 /\ Len(Closes["destroy"]) = 1
      /\ Objects["destroy"][1] = "vectors"
  BY <1>1, Plans
<1>3. TypeOK'
  BY <1>1, <1>2, DevicesAssumption DEF BeginDestroy, Enter, IInv, TypeOK, Resources
<1> QED
  BY <1>1, <1>2, <1>3 DEF BeginDestroy, Enter, IInv, Staged, Owned, DueIsBuilt, ClosedIsGone, HomeKept,
              LostReported, AtZero, UsedOnOwnDevice, WithoutScope

LEMMA ConstructPreserves ==
    ASSUME IInv, Construct
    PROVE  IInv'
<1> DEFINE o == Objects[op][built + 1]
<1>1. /\ op \in Calls /\ built \in Nat /\ built < Len(Objects[op]) /\ phase = "construct"
      /\ closed = 0 /\ lost = {} /\ result = "none"
  BY Plans DEF IInv, TypeOK, Staged, LostReported, Construct
<1>2. Len(Objects[op]) \in Nat /\ built + 1 \in 1..Len(Objects[op])
  BY <1>1, Plans
<1>3. o \in Resources \cup {"device"}
  BY <1>1, <1>2, Plans
<1>4. op = "destroy" => Len(Objects[op]) = 2 /\ (o = "device" <=> built = 1)
  BY <1>1, <1>2, Plans
<1>5. op # "destroy" => (o = "device" <=> built = 0)
  BY <1>1, <1>2, Plans
<1>6. /\ built' = built + 1
      /\ phase' = IF built + 1 < Len(Objects[op]) THEN "construct"
                  ELSE IF op = "destroy" THEN "close" ELSE "work"
      /\ UNCHANGED <<op, closed, matrices, result, home, lost>>
      /\ IF o = "device" THEN SelectZero
         ELSE /\ allocated' = allocated \cup {o} /\ due' = due \cup {o}
              /\ UNCHANGED <<current, previous>>
  BY DEF Construct
<1> HIDE DEF o
<1>7. TypeOK'
  BY <1>1, <1>2, <1>3, <1>6, DevicesAssumption DEF IInv, TypeOK, SelectZero
<1>8. Staged'
  BY <1>1, <1>2, <1>6 DEF IInv, Staged
<1>9. Owned'
  BY <1>6 DEF IInv, Owned, SelectZero
<1>10. due' \subseteq due \cup {o}
  BY <1>6 DEF SelectZero
<1>11. DueIsBuilt'
  <2> SUFFICES ASSUME NEW x \in due' PROVE \E n \in 1..(built + 1) : Objects[op][n] = x
    BY <1>6 DEF DueIsBuilt
  <2>1. CASE x = o
    BY <2>1, <1>2 DEF o
  <2>2. CASE x # o
    <3>1. PICK n \in 1..built : Objects[op][n] = x
      BY <2>2, <1>10 DEF IInv, DueIsBuilt
    <3> QED
      BY <3>1, <1>1
  <2> QED
    BY <2>1, <2>2
<1>12. ClosedIsGone'
  BY <1>1, <1>6 DEF ClosedIsGone
<1>13. "device" \in due => built > 0
  BY <1>1 DEF IInv, DueIsBuilt
<1>14. o = "device" => "device" \notin due
  <2>1. SUFFICES ASSUME o = "device", "device" \in due PROVE FALSE
    OBVIOUS
  <2>2. PICK n \in 1..built : Objects[op][n] = "device"
    BY <2>1 DEF IInv, DueIsBuilt
  <2> QED
    BY <2>1, <2>2, <1>1, <1>2, <1>4, <1>5, Plans
<1>15. HomeKept'
  BY <1>1, <1>6, <1>14 DEF IInv, HomeKept, SelectZero
<1>16. LostReported'
  BY <1>1, <1>6 DEF LostReported
<1>17. AtZero'
  <2>1. op # "destroy" => current' = 0
    BY <1>1, <1>5, <1>6 DEF IInv, AtZero, SelectZero
  <2>2. op = "destroy" => current' = 0 \/ (built' = 1 /\ phase' = "construct")
    <3>1. CASE op = "destroy" /\ built = 1
      BY <3>1, <1>4, <1>6 DEF SelectZero
    <3>2. CASE op = "destroy" /\ built = 0
      BY <3>2, <1>4, <1>6
    <3>3. ASSUME op = "destroy" PROVE built = 0 \/ built = 1
      <4>1. Len(Objects[op]) = 2
        BY <3>3, <1>4
      <4>2. built < 2
        BY <4>1, <1>1
      <4> QED
        BY <4>2, <1>1
    <3> QED
      BY <3>1, <3>2, <3>3
  <2>3. phase' # "exit"
    BY <1>6
  <2> QED
    BY <2>1, <2>2, <2>3, <1>6 DEF AtZero, UsedOnOwnDevice, WithoutScope
<1> QED
  BY <1>7, <1>8, <1>9, <1>11, <1>12, <1>15, <1>16, <1>17 DEF IInv

\* The work, and a throw on the way, change nothing but where the call is.
LEMMA WorkPreserves ==
    ASSUME IInv, Work \/ Unavailable \/ Throw
    PROVE  IInv'
<1>1. op \in Calls /\ built \in Nat /\ Len(Objects[op]) \in Nat
  BY Plans DEF IInv, TypeOK
<1>2. /\ UNCHANGED <<current, op, built, closed, due, previous, allocated, matrices, home, lost>>
      /\ phase \in {"construct", "work"} /\ lost = {} /\ closed = 0
      /\ \/ phase = "work" /\ phase' = "close" /\ result' \in {"value", "unavailable"}
         \/ phase' = "exit" /\ result' \in {"unavailable", "threw"}
  BY DEF Work, Unavailable, Throw, IInv, LostReported, Staged
<1>3. TypeOK'
  BY <1>2 DEF IInv, TypeOK
<1>4. Staged' /\ Owned' /\ DueIsBuilt' /\ ClosedIsGone' /\ HomeKept' /\ LostReported'
  BY <1>1, <1>2 DEF IInv, Staged, Owned, DueIsBuilt, ClosedIsGone, HomeKept, LostReported
<1>5. allocated # {} => current = 0 \/ WithoutScope
  BY <1>2 DEF IInv, AtZero, UsedOnOwnDevice, WithoutScope
<1>6. op = "destroy" => phase' = "exit" /\ result' = "threw"
  BY <1>2 DEF Work, Unavailable, Throw, IInv, Staged
<1>7. WithoutScope => WithoutScope'
  BY <1>2, <1>6 DEF WithoutScope
<1>8. AtZero'
  BY <1>2, <1>5, <1>6, <1>7 DEF AtZero, UsedOnOwnDevice
<1> QED
  BY <1>3, <1>4, <1>8 DEF IInv

LEMMA ClosePreserves ==
    ASSUME IInv, Close
    PROVE  IInv'
<1> DEFINE o == Closes[op][closed + 1]
<1>1. /\ op \in Calls /\ built \in Nat /\ closed \in Nat /\ phase = "close"
      /\ built = Len(Objects[op]) /\ lost = {}
  BY Plans DEF IInv, TypeOK, Staged, LostReported, Close
<1>2. /\ Len(Closes[op]) \in Nat /\ closed + 1 \in 1..Len(Closes[op])
      /\ built \in Nat \ {0}
  BY <1>1, Plans DEF Close
<1>3. /\ due' = due \ {o}
      /\ \/ /\ o \in due /\ Takes(o)
            /\ UNCHANGED <<phase, result>>
         \/ /\ o \notin due /\ UNCHANGED <<current, allocated, lost, phase, result>>
         \/ /\ o \in due /\ Refuses(o)
            /\ phase' = "exit" /\ result' = "threw"
      /\ closed' = closed + 1
      /\ UNCHANGED <<op, built, previous, matrices, home>>
  BY DEF Close
<1>4. o \in Resources \cup {"device"}
  BY <1>1, <1>2, Plans
<1>5. o = "device" => op # "destroy" /\ closed + 1 = Len(Closes[op])
  BY <1>1, <1>2, Plans
<1>6. op = "destroy" => built = 2
  BY <1>1, Plans
<1> HIDE DEF o
<1>7. allocated # {} => current = 0
  <2>1. closed # Len(Closes[op])
    BY <1>1, <1>2
  <2>2. UsedOnOwnDevice
    BY DEF IInv, AtZero
  <2>3. ~ WithoutScope
    BY <1>6 DEF WithoutScope
  <2> QED
    BY <2>1, <2>2, <2>3 DEF UsedOnOwnDevice
<1>8. allocated' \subseteq allocated
  BY <1>3 DEF Takes, Refuses
<1>9. TypeOK'
  BY <1>1, <1>2, <1>3, <1>4, <1>8 DEF IInv, TypeOK, Takes, Refuses
<1>10. Staged'
  BY <1>1, <1>3 DEF IInv, Staged
<1>11. Owned'
  BY <1>3 DEF IInv, Owned, Takes, Refuses
<1>12. DueIsBuilt'
  BY <1>3 DEF IInv, DueIsBuilt
<1>13. ClosedIsGone'
  <2> SUFFICES ASSUME NEW n \in 1..(closed + 1) PROVE Closes[op][n] \notin due'
    BY <1>3 DEF ClosedIsGone
  <2>1. CASE n = closed + 1
    BY <2>1, <1>3 DEF o
  <2>2. CASE n # closed + 1
    <3>1. n \in 1..closed
      BY <2>2, <1>1
    <3> QED
      BY <3>1, <1>1, <1>3 DEF IInv, ClosedIsGone
  <2> QED
    BY <2>1, <2>2
<1>14. HomeKept'
  <2>1. CASE o = "device"
    BY <2>1, <1>3 DEF IInv, HomeKept, Takes, Refuses
  <2>2. CASE o # "device"
    BY <2>2, <1>1, <1>3 DEF IInv, HomeKept, Takes, Refuses
  <2> QED
    BY <2>1, <2>2
<1>15. LostReported'
  BY <1>1, <1>3 DEF IInv, LostReported, Takes, Refuses
<1>16. AtZero'
  <2>1. CASE current' = current
    BY <2>1, <1>1, <1>3, <1>7, <1>8 DEF AtZero, UsedOnOwnDevice, WithoutScope
  <2>2. CASE current' # current
    <3>1. o = "device" /\ phase' = "close" /\ closed' = Len(Closes[op'])
      BY <2>2, <1>1, <1>3, <1>5 DEF Takes, Refuses
    <3>2. CASE op = "build"
      BY <3>1, <3>2, <1>3 DEF AtZero, UsedOnOwnDevice, WithoutScope
    <3>3. CASE op # "build"
      <4>1. due' = {}
        <5> SUFFICES ASSUME NEW x \in due' PROVE FALSE
          OBVIOUS
        <5>1. PICK n \in 1..Len(Objects[op]) : Objects[op][n] = x
          BY <1>1, <1>3, <1>12 DEF DueIsBuilt
        <5>2. \A m \in 1..Len(Closes[op]) : Closes[op][m] # x
          BY <3>1, <1>3, <1>13 DEF ClosedIsGone
        <5>3. op # "destroy"
          BY <3>1, <1>5
        <5> QED
          BY <5>1, <5>2, <5>3, <3>3, <1>1, Plans
      <4> QED
        BY <4>1, <3>1, <1>11 DEF Owned, AtZero, UsedOnOwnDevice
    <3> QED
      BY <3>2, <3>3
  <2> QED
    BY <2>1, <2>2
<1> QED
  BY <1>9, <1>10, <1>11, <1>12, <1>13, <1>14, <1>15, <1>16 DEF IInv

LEMMA ReturnPreserves ==
    ASSUME IInv, Return
    PROVE  IInv'
<1>1. /\ op \in Calls /\ built = Len(Objects[op]) /\ lost = {} /\ phase = "close"
      /\ closed = Len(Closes[op]) /\ (op = "destroy" => result = "none")
  BY DEF IInv, TypeOK, Staged, LostReported, Return
<1>2. due \subseteq IF op = "build" THEN {"vectors"}
                    ELSE IF op = "destroy" THEN {"device"} ELSE {}
  BY <1>1, AllClosed
<1>3. /\ phase' = "exit"
      /\ UNCHANGED <<current, op, built, closed, previous, result, home, lost>>
      /\ due' \subseteq due
      /\ op # "destroy" => due' = {}
      /\ allocated' = due' \ {"device"}
      /\ "device" \in due' <=> "device" \in due
  <2>1. CASE op = "build"
    BY <2>1, <1>2 DEF Return, IInv, Owned
  <2>2. CASE op # "build"
    BY <2>2, <1>2 DEF Return, IInv, Owned
  <2> QED
    BY <2>1, <2>2
<1>4. allocated' = {}
  BY <1>2, <1>3
<1>5. TypeOK'
  <2>1. matrices' \in 0..Capacity
    BY <1>1, DevicesAssumption DEF Return, IInv, TypeOK, Staged
  <2> QED
    BY <2>1, <1>3 DEF IInv, TypeOK, Return
<1>6. Staged' /\ Owned' /\ ClosedIsGone' /\ HomeKept' /\ AtZero'
  BY <1>3, <1>4 DEF IInv, Staged, Owned, ClosedIsGone, HomeKept, AtZero, UsedOnOwnDevice, WithoutScope
<1>7. DueIsBuilt'
  BY <1>3 DEF IInv, DueIsBuilt
<1>8. LostReported'
  BY <1>1, <1>3 DEF IInv, LostReported
<1> QED
  BY <1>5, <1>6, <1>7, <1>8 DEF IInv

LEMMA DestroyPreserves ==
    ASSUME IInv, Destroy
    PROVE  IInv'
<1> DEFINE o == Objects[op][built]
<1>1. /\ op \in Calls /\ built \in 1..Len(Objects[op]) /\ Len(Objects[op]) \in Nat
      /\ phase = "exit"
  BY Plans DEF IInv, TypeOK, Destroy
<1>2. /\ due' = due \ {o}
      /\ \/ o \in due /\ (Takes(o) \/ Refuses(o))
         \/ o \notin due /\ UNCHANGED <<current, allocated, lost>>
      /\ built' = built - 1
      /\ UNCHANGED <<op, phase, closed, previous, matrices, result, home>>
  BY DEF Destroy
<1>3. o \in Resources \cup {"device"}
  BY <1>1, Plans
<1>4. DueIsBuilt'
  <2> SUFFICES ASSUME NEW x \in due' PROVE \E n \in 1..(built - 1) : Objects[op][n] = x
    BY <1>2 DEF DueIsBuilt
  <2>1. PICK n \in 1..built : Objects[op][n] = x
    BY <1>2 DEF IInv, DueIsBuilt
  <2>2. n # built
    BY <2>1, <1>2
  <2> QED
    BY <2>1, <2>2, <1>1
<1>5. o = "device" /\ op # "destroy" => due' = {}
  <2>1. o = "device" /\ op # "destroy" => built = 1
    BY <1>1, Plans
  <2> QED
    BY <2>1, <1>2, <1>4 DEF DueIsBuilt
<1>6. o = "device" /\ op = "destroy" => built' = 1
  <2>1. op = "destroy" => Len(Objects[op]) = 2 /\ Objects[op][1] = "vectors"
    BY <1>1, Plans
  <2>2. o = "device" /\ op = "destroy" => built = 2
    BY <2>1, <1>1
  <2> QED
    BY <2>2, <1>2
<1>7. op = "destroy" /\ built = 1 => o # "device"
  BY <1>1, Plans
<1> HIDE DEF o
<1>8. Owned' /\ allocated' \subseteq allocated
  BY <1>2 DEF IInv, Owned, Takes, Refuses
<1>9. TypeOK'
  BY <1>1, <1>2, <1>3, <1>8 DEF IInv, TypeOK, Takes, Refuses
<1>10. Staged' /\ ClosedIsGone'
  BY <1>1, <1>2 DEF Staged, ClosedIsGone
<1>11. HomeKept'
  <2>1. CASE o = "device"
    BY <2>1, <1>2 DEF IInv, HomeKept, Takes, Refuses
  <2>2. CASE o # "device"
    BY <2>2, <1>2 DEF IInv, HomeKept, Takes, Refuses
  <2> QED
    BY <2>1, <2>2
<1>12. LostReported'
  BY <1>1, <1>2 DEF IInv, LostReported, Takes, Refuses
<1>13. AtZero'
  <2> SUFFICES ASSUME allocated' # {}
               PROVE  current' = 0 \/ (op = "destroy" /\ built' = 1 /\ result = "threw")
    <3>1. op = "destroy" /\ allocated' # {} => result = "threw"
      BY <1>1, <1>8 DEF IInv, AtZero
    <3> QED
      BY <3>1, <1>1, <1>2 DEF AtZero, UsedOnOwnDevice, WithoutScope
  <2>1. CASE o = "device"
    <3>1. op = "destroy"
      BY <2>1, <1>5, <1>8 DEF Owned
    <3>2. result = "threw"
      BY <3>1, <1>1, <1>8 DEF IInv, AtZero
    <3> QED
      BY <2>1, <3>1, <3>2, <1>6
  <2>2. CASE o # "device"
    <3>1. current' = current
      BY <2>2, <1>2 DEF Takes, Refuses
    <3>2. current = 0 \/ (op = "destroy" /\ built = 1)
      BY <1>1, <1>8 DEF IInv, AtZero, UsedOnOwnDevice, WithoutScope
    <3>3. CASE op = "destroy" /\ built = 1
      <4>1. due' = {}
        BY <3>3, <1>2, <1>4 DEF DueIsBuilt
      <4> QED
        BY <4>1, <1>8 DEF Owned
    <3> QED
      BY <3>1, <3>2, <3>3
  <2> QED
    BY <2>1, <2>2
<1> QED
  BY <1>4, <1>8, <1>9, <1>10, <1>11, <1>12, <1>13 DEF IInv

LEMMA EndPreserves ==
    ASSUME IInv, End
    PROVE  IInv'
<1>1. due = {} /\ allocated = {}
  BY DEF IInv, DueIsBuilt, Owned, End
<1>2. TypeOK'
  BY DEF End, IInv, TypeOK
<1> QED
  BY <1>1, <1>2 DEF End, IInv, Staged, Owned, DueIsBuilt, ClosedIsGone, HomeKept,
                    LostReported, AtZero, UsedOnOwnDevice, WithoutScope

----------------------------------------------------------------------------
(* The theorems *)

LEMMA StepsPreserve == IInv /\ [Next]_vars => IInv'
<1> SUFFICES ASSUME IInv, [Next]_vars PROVE IInv'
  OBVIOUS
<1>1. ASSUME NEW x \in Devices, SelectDevice(x) PROVE IInv'
  BY <1>1, SelectDevicePreserves
<1>2. ASSUME NEW c \in Calls, Begin(c) PROVE IInv'
  BY <1>2, BeginPreserves
<1>3. CASE BeginDestroy
  BY <1>3, BeginDestroyPreserves
<1>4. CASE Construct
  BY <1>4, ConstructPreserves
<1>5. CASE Work \/ Unavailable \/ Throw
  BY <1>5, WorkPreserves
<1>6. CASE Close
  BY <1>6, ClosePreserves
<1>7. CASE Return
  BY <1>7, ReturnPreserves
<1>8. CASE Destroy
  BY <1>8, DestroyPreserves
<1>9. CASE End
  BY <1>9, EndPreserves
<1>10. CASE UNCHANGED vars
  BY <1>10 DEF vars, IInv, TypeOK, Staged, Owned, DueIsBuilt, ClosedIsGone, HomeKept,
               LostReported, AtZero, UsedOnOwnDevice, WithoutScope
<1> QED
  BY <1>1, <1>2, <1>3, <1>4, <1>5, <1>6, <1>7, <1>8, <1>9, <1>10 DEF Next

LEMMA Inductive == Spec => []IInv
  BY InitEstablishes, StepsPreserve, PTL DEF Spec

LEMMA IInvImplies ==
    IInv => TypeOK /\ ReleasedExactlyOnce /\ UsedOnOwnDevice /\ CallEndsCleanly
<1> SUFFICES ASSUME IInv
             PROVE  ReleasedExactlyOnce /\ UsedOnOwnDevice /\ CallEndsCleanly
  BY DEF IInv
<1>1. due \subseteq Built
  BY DEF IInv, DueIsBuilt, Built
<1>2. ReleasedExactlyOnce
  BY <1>1 DEF IInv, Owned, Staged, ReleasedExactlyOnce
<1>3. CallEndsCleanly
  <2>1. phase = "idle" => due = {}
    BY DEF IInv, Staged, DueIsBuilt
  <2> QED
    BY <2>1 DEF IInv, HomeKept, LostReported, CallEndsCleanly
<1> QED
  BY <1>2, <1>3 DEF IInv, AtZero

\* The state of a call has its type, for any set of devices.
THEOREM TypeCorrect == Spec => []TypeOK
  BY Inductive, IInvImplies, PTL

\* Nothing is released twice and nothing is forgotten, wherever a call fails.
THEOREM NothingForgotten == Spec => []ReleasedExactlyOnce
  BY Inductive, IInvImplies, PTL

\* Memory is used and freed under its own device.
THEOREM DeviceSelected == Spec => []UsedOnOwnDevice
  BY Inductive, IInvImplies, PTL

\* The caller's device comes back, and results come without a failed cleanup.
THEOREM CleanEnds == Spec => []CallEndsCleanly
  BY Inductive, IInvImplies, PTL
=============================================================================
