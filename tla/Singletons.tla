----------------------------- MODULE Singletons -----------------------------
(***************************************************************************)
(* The objects a process makes once and shares: the connection pool, the   *)
(* store and the saver over it, the clients of the models.  Each getter    *)
(* looks at a global, makes the object when there is none, assigns it and  *)
(* returns the global; nothing locks, and threads call the getters.        *)
(***************************************************************************)
EXTENDS Integers

CONSTANTS
    Callers,   \* threads
    Singles,   \* the globals of this process, a subset of the five
    Nobody     \* None

ASSUME SinglesAssumption == Singles # {} /\ Singles \subseteq {"pool", "store", "saver", "chat", "embedder"}
ASSUME NobodyAssumption == Nobody \notin Callers

\* These are built over the pool, and setup() creates their tables first.
OverPool == {"store", "saver"}

ASSUME PoolAssumption == Singles \cap OverPool # {} => "pool" \in Singles

VARIABLES
    single,  \* each global: the caller that made the object, or None
    tables,  \* the singles whose setup() was complete at some time
    getter   \* each caller's call of a getter

single_vars == <<single, tables, getter>>

\* wanted is the getter called, at the global its body looks at: get_store is in
\* get_pool while at is "pool".  there, the model's own, are the singles that were
\* there when the call began.
Getter ==
    [phase : {"idle", "look", "make", "setup", "return", "got"},
     wanted : Singles, at : Singles, there : SUBSET Singles]

-----------------------------------------------------------------------------

Resting == LET s == CHOOSE s \in Singles : TRUE
           IN  [phase |-> "idle", wanted |-> s, at |-> s, there |-> {}]

SingleInit ==
    /\ single = [s \in Singles |-> Nobody]
    /\ tables \in SUBSET (OverPool \cap Singles)   \* another process may have set them up
    /\ getter = [c \in Callers |-> Resting]

To(c, phase, s) == getter' = [getter EXCEPT ![c].phase = phase, ![c].at = s]

Get(c, s) ==
    /\ getter[c].phase = "idle"
    /\ getter' = [getter EXCEPT ![c] = [phase |-> "look", wanted |-> s, at |-> s,
                                         there |-> {t \in Singles : single[t] # Nobody}]]
    /\ UNCHANGED <<single, tables>>

\* Mutant: the global is not looked at.
LookAway(c) ==
    LET s == getter[c].at IN
    /\ getter[c].phase = "look"
    /\ IF s \in OverPool THEN To(c, "look", "pool") ELSE To(c, "make", s)
    /\ UNCHANGED <<single, tables>>

\* if _pool is None
Look(c) ==
    LET s == getter[c].at IN
    /\ getter[c].phase = "look"
    /\ IF single[s] # Nobody THEN To(c, "return", s)
       ELSE IF s \in OverPool THEN To(c, "look", "pool")
       ELSE To(c, "make", s)
    /\ UNCHANGED <<single, tables>>

\* The constructor and the assignment of the global.
Make(c) ==
    LET s == getter[c].at IN
    /\ getter[c].phase = "make"
    /\ single' = [single EXCEPT ![s] = c]
    /\ To(c, "return", s)
    /\ UNCHANGED tables

\* Mutant: the store is assigned before its setup().
SetupAfter(c) ==
    /\ getter[c].phase = "setup"
    /\ IF single[getter[c].wanted] = Nobody
       THEN /\ single' = [single EXCEPT ![getter[c].wanted] = c]
            /\ UNCHANGED <<tables, getter>>
       ELSE /\ tables' = tables \cup {getter[c].wanted}
            /\ To(c, "return", getter[c].wanted)
            /\ UNCHANGED single

\* store.setup() on the caller's own object; the tables are there when it returns.
Setup(c) ==
    /\ getter[c].phase = "setup"
    /\ tables' = tables \cup {getter[c].wanted}
    /\ To(c, "make", getter[c].wanted)
    /\ UNCHANGED single

\* return _pool reads the global again; get_store goes on with the pool it got.
Return(c) ==
    LET s == getter[c].at IN
    /\ getter[c].phase = "return"
    /\ To(c, IF s = getter[c].wanted THEN "got" ELSE "setup", getter[c].wanted)
    /\ UNCHANGED <<single, tables>>

\* No database, or two setup() at once: an exception, and the global stays as it is.
GetRaises(c) ==
    /\ \/ getter[c].phase = "setup"
       \/ getter[c].phase = "make" /\ getter[c].at \notin OverPool
    /\ getter' = [getter EXCEPT ![c] = Resting]
    /\ UNCHANGED <<single, tables>>

\* The caller is done with the object.
Release(c) ==
    /\ getter[c].phase = "got"
    /\ getter' = [getter EXCEPT ![c] = Resting]
    /\ UNCHANGED <<single, tables>>

Getting(c) == Look(c) \/ Make(c) \/ Setup(c) \/ Return(c) \/ GetRaises(c)

-----------------------------------------------------------------------------

SinglesTypeOK ==
    /\ single \in [Singles -> Callers \cup {Nobody}]
    /\ tables \subseteq OverPool \cap Singles
    /\ getter \in [Callers -> Getter]

\* A caller only gets what exists, and a store or saver it gets has its tables:
\* whatever raises or races, nobody reads or writes before setup() is complete.
GotIsReady ==
    \A c \in Callers : getter[c].phase = "got" =>
        /\ single[getter[c].wanted] # Nobody
        /\ getter[c].wanted \in OverPool =>
             getter[c].wanted \in tables /\ single["pool"] # Nobody

\* The threads of a first reply may make a single twice, but only they: once every
\* call in progress began when the single was there, it stays for the process.
SettledSingletonsStay ==
    [][\A s \in Singles :
         /\ single[s] # Nobody
         /\ \A c \in Callers : getter[c].phase = "idle" \/ s \in getter[c].there
         => single'[s] = single[s]]_single_vars

\* The inductive invariant.
CallOk(c) ==
    LET g == getter[c] IN
    /\ g.phase \in {"return", "got"} => single[g.at] # Nobody
    /\ g.phase \in {"idle", "got", "setup"} => g.at = g.wanted
    /\ g.at # g.wanted => g.at = "pool" /\ g.wanted \in OverPool
    /\ g.phase \in {"setup", "make"} /\ g.wanted \in OverPool /\ g.at = g.wanted =>
         single["pool"] # Nobody
    /\ g.phase = "setup" => g.wanted \in OverPool
    /\ g.phase = "make" /\ g.at \in OverPool => g.at \in tables
    /\ g.phase = "make" => g.at \notin g.there
    /\ g.phase = "setup" => g.wanted \notin g.there
    /\ g.at # g.wanted => g.wanted \notin g.there
    /\ \A s \in g.there : single[s] # Nobody

SIInv ==
    /\ SinglesTypeOK
    /\ \A s \in Singles \cap OverPool : single[s] # Nobody => s \in tables /\ single["pool"] # Nobody
    /\ \A c \in Callers : CallOk(c)
=============================================================================
