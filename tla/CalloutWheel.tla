---------------------------- MODULE CalloutWheel ----------------------------
(***************************************************************************)
(* When a callout is due, sys/kern/kern_timeout.c: the four wheels of      *)
(* buckets of a CPU, which callout_hardclock turns and callout_softclock   *)
(* fills.  Times are integers of 4 * WHEELBITS bits that wrap around: four *)
(* wheels of WHEELBITS = 8 for the code's 32 bits.                         *)
(***************************************************************************)
EXTENDS Integers

CONSTANTS
    WHEELBITS,      \* the bits of the time that index a wheel
    Timer,          \* the callouts of the CPU
    Delay,          \* the to_ticks they are scheduled with, as int >= 0
    MaxLag          \* by how many ticks the software interrupt may be late

WHEELSIZE == 2 ^ WHEELBITS
Time == 0 .. 2 ^ (4 * WHEELBITS) - 1

VARIABLES
    cc_ticks,       \* the clock of the CPU
    c_time,         \* when each callout is due
    flag,           \* "idle", "PENDING" or "FIRED"
    list,           \* the list it is on: cc_todo, which is <<>>, or a bucket
    left            \* for how many more ticks it was asked to wait

vars == <<cc_ticks, c_time, flag, list, left>>

Todo == <<>>
MASKWHEEL(wheel, time) == (time \div WHEELSIZE ^ wheel) % WHEELSIZE

\* The clock may start anywhere: it is the wrapping around that matters.
Init == /\ cc_ticks \in Time
        /\ c_time = [o \in Timer |-> cc_ticks]
        /\ flag = [o \in Timer |-> "idle"]
        /\ list = [o \in Timer |-> Todo]
        /\ left = [o \in Timer |-> 0]

\* Arithmetic on u_int and int
Sum(t, n) == (t + n) % 2 ^ (4 * WHEELBITS)
Diff(t, u) == LET half == 2 ^ (4 * WHEELBITS - 1)
              IN  ((t - u + half) % (2 * half)) - half

BUCKET(rel, abs) ==
    LET wheel == CHOOSE w \in 0 .. 3 :
                    /\ w = 3 \/ rel <= WHEELSIZE ^ (w + 1)
                    /\ \A v \in 0 .. w - 1 : rel > WHEELSIZE ^ (v + 1)
    IN  <<wheel, MASKWHEEL(wheel, abs)>>

-----------------------------------------------------------------------------
\* A pending callout that is put off stays where it is.
Moved(o, time) == Diff(time, c_time[o]) < 0

callout_schedule(o, to_ticks) ==
    LET time == Sum(cc_ticks, to_ticks) IN
    /\ c_time' = [c_time EXCEPT ![o] = time]
    /\ flag' = [flag EXCEPT ![o] = "PENDING"]
    /\ list' = IF flag[o] = "PENDING" /\ ~Moved(o, time)
               THEN list ELSE [list EXCEPT ![o] = Todo]
    /\ left' = [left EXCEPT ![o] = to_ticks]
    /\ UNCHANGED cc_ticks

callout_stop(o) ==
    /\ flag[o] # "idle"
    /\ flag' = [flag EXCEPT ![o] = "idle"]
    /\ list' = [list EXCEPT ![o] = Todo]
    /\ left' = [left EXCEPT ![o] = 0]
    /\ UNCHANGED <<cc_ticks, c_time>>

\* The buckets that MOVEBUCKET appends to cc_todo at a tick.
\* (The variant turns every wheel but the first one round too late.)
TurnedLate(ticks) ==
    {<<0, MASKWHEEL(0, ticks)>>} \cup
    {<<w, (MASKWHEEL(w, ticks) + 1) % WHEELSIZE>> :
        w \in {v \in 1 .. 3 : \A u \in 0 .. v - 1 : MASKWHEEL(u, ticks) = 0}}
Turned(ticks) ==
    {<<w, MASKWHEEL(w, ticks)>> :
        w \in {v \in 0 .. 3 : \A u \in 0 .. v - 1 : MASKWHEEL(u, ticks) = 0}}

callout_hardclock ==
    LET ticks == Sum(cc_ticks, 1) IN
    /\ \A o \in Timer : flag[o] = "PENDING" => left[o] > -MaxLag
    /\ cc_ticks' = ticks
    /\ list' = [o \in Timer |-> IF flag[o] = "PENDING" /\ list[o] \in Turned(ticks)
                                THEN Todo ELSE list[o]]
    /\ left' = [o \in Timer |-> IF flag[o] = "PENDING" THEN left[o] - 1 ELSE left[o]]
    /\ UNCHANGED <<c_time, flag>>

\* One round of the loop of callout_softclock: a callout that is not due yet
\* goes to its bucket.
Due(delta) == delta <= 0

callout_softclock(o) ==
    LET delta == Diff(c_time[o], cc_ticks) IN
    /\ flag[o] = "PENDING" /\ list[o] = Todo
    /\ IF Due(delta)
       THEN flag' = [flag EXCEPT ![o] = "FIRED"] /\ UNCHANGED list
       ELSE list' = [list EXCEPT ![o] = BUCKET(delta, c_time[o])] /\ UNCHANGED flag
    /\ UNCHANGED <<cc_ticks, c_time, left>>

Next == \/ callout_hardclock
        \/ \E o \in Timer : \/ \E n \in Delay : callout_schedule(o, n)
                            \/ callout_stop(o) \/ callout_softclock(o)

Spec == Init /\ [][Next]_vars

-----------------------------------------------------------------------------
(* Properties                                                              *)

\* A callout is run in its time.  In the tick in which it is due it is on
\* cc_todo, so that callout_hardclock asks for the software interrupt that runs
\* it, and callout_softclock runs none before: not after it was put off, nor
\* when the clock wraps around.
OnTime ==
    /\ [](\A o \in Timer : flag[o] = "PENDING" /\ left[o] <= 0 => list[o] = Todo)
    /\ [][\A o \in Timer :
             flag[o] = "PENDING" /\ flag'[o] = "FIRED" => left[o] <= 0]_vars
=============================================================================
