-------------------------------- MODULE Ldso --------------------------------
(***************************************************************************)
(* The dynamic linker (libc/ldso: dso.rs, ffi.rs, elf.rs): loading of a    *)
(* program and of dlopen'ed libraries with what they need, their order in  *)
(* the DSO list, symbol search and relocation, initialisers and            *)
(* finalisers, and the thread-local blocks.                                *)
(*                                                                         *)
(* A DSO is an instance of a library: the same library can be loaded more  *)
(* than once.  Every library defines one symbol, its own name, and refers  *)
(* to those of the libraries it needs; `Weak' libraries define theirs      *)
(* weakly, and `Shadow' names a library that defines another one's symbol  *)
(* too.  The list mutex is held from the start of a load to its end.       *)
(***************************************************************************)
EXTENDS Integers, Sequences, FiniteSets, SequencesExt

CONSTANTS
    Lib,        \* libraries, the program among them
    Prog,       \* the program
    Needed,     \* the sets of DT_NEEDED entries to check: library to sequence
    Weak,       \* libraries whose symbol is weak
    Shadow,     \* library to the set of others whose symbol it defines too
    TlsSize,    \* library to the size of its TLS segment, 0 for none
    MaxLoads    \* bound: DSOs loaded

VARIABLES
    needs,      \* the graph of this run
    dsoList,       \* the DSO list
    names,      \* DsoList::names
    stack,      \* load_dso frames: [name, deps still to load]
    saved,      \* the names `load' will restore on an error
    tls,        \* DsoList::tls: [offset, size]
    inits,      \* DSOs in the order they were initialised
    finis,      \* DSOs in the order they were finalised
    closed,     \* DSOs that were closed
    threads,    \* each thread control block's data length
    phase,      \* "boot", "run", "exit", or "panic"
    loads

ldvars == <<needs, dsoList, names, stack, saved, tls, inits, finis, closed, threads, phase, loads>>

Dso(n, id) == [name |-> n, id |-> id]
In(d, seq) == \E i \in DOMAIN seq : seq[i] = d

LdInit ==
    /\ needs \in Needed /\ dsoList = <<>> /\ names = {} /\ stack = <<>> /\ saved = {} /\ tls = <<>>
    /\ inits = <<>> /\ finis = <<>> /\ closed = {} /\ threads = <<0>>
    /\ phase = "boot" /\ loads = 0

(* load_deps: what the names do not have yet, as of now.                   *)
Deps(n) == SelectSeq(needs[n], LAMBDA m : m \notin names \cup {n})

(* Dso::load: the names are kept for the error path, then load_dso.        *)
LoadStart(n) ==
    /\ stack = <<>> /\ loads < MaxLoads
    /\ phase = IF n = Prog THEN "boot" ELSE "run"
    /\ saved' = names /\ names' = names \cup {n}
    /\ stack' = <<[name |-> n, deps |-> Deps(n)]>>
    /\ UNCHANGED <<needs, dsoList, tls, inits, finis, closed, threads, phase, loads>>

(* The next dependency of the innermost load: load_dso again.              *)
LoadDep ==
    /\ stack # <<>> /\ Last(stack).deps # <<>> /\ loads + Len(stack) < MaxLoads
    /\ LET n == Head(Last(stack).deps)
       IN  /\ stack' = Front(stack) \o <<[name |-> Last(stack).name, deps |-> Tail(Last(stack).deps)],
                                        [name |-> n, deps |-> Deps(n)]>>
           /\ names' = names \cup {n}
    /\ UNCHANGED <<needs, dsoList, saved, tls, inits, finis, closed, threads, phase, loads>>

(* Some object is not found or not an ELF file: every frame returns the    *)
(* error and `load' restores the names; what was pushed stays.             *)
LoadFailed ==
    /\ stack # <<>> /\ stack' = <<>> /\ names' = saved
    /\ phase' = IF phase = "boot" THEN "panic" ELSE phase
    /\ UNCHANGED <<needs, dsoList, saved, tls, inits, finis, closed, threads, loads>>

(* find_symbol: the first global definition in list order, else the first  *)
(* weak one.                                                               *)
Defines(d, s) == d.name = s \/ s \in Shadow[d.name]
FindSymbol(l, s) ==
    LET def == SelectSeq(l, LAMBDA d : Defines(d, s))
        strong == SelectSeq(def, LAMBDA d : d.name \notin Weak)
    IN  IF strong # <<>> THEN {strong[1]} ELSE IF def # <<>> THEN {def[1]} ELSE {}

(* A bug: the new block starts where the last one does.                    *)
LoadTls_Over(n) == IF TlsSize[n] = 0 THEN tls
                  ELSE Append(tls, [offset |-> IF tls = <<>> THEN 0 ELSE Last(tls).offset, size |-> TlsSize[n], name |-> n])

(* The program's TLS goes into the running thread, the last one made.      *)
TlsEnd(t) == IF t = <<>> THEN 0 ELSE Last(t).offset + Last(t).size
LoadTls(n) == IF TlsSize[n] = 0 THEN tls ELSE Append(tls, [offset |-> TlsEnd(tls), size |-> TlsSize[n], name |-> n])

(* The end of load_dso: load_tls, push and relocate_dso; an undefined      *)
(* symbol panics.                                                          *)
LoadEnd ==
    /\ stack # <<>> /\ Last(stack).deps = <<>>
    /\ LET n == Last(stack).name
           d == Dso(n, loads + 1)
           l == Append(dsoList, d)
           syms == {n} \cup ToSet(needs[n])
       IN  /\ dsoList' = l /\ loads' = loads + 1 /\ tls' = LoadTls(n)
           /\ threads' = IF n = Prog /\ TlsSize[n] # 0 THEN [threads EXCEPT ![Len(threads)] = TlsEnd(tls')] ELSE threads
           /\ phase' = IF \E s \in syms : FindSymbol(l, s) = {} THEN "panic"
                       ELSE IF n = Prog THEN "run" ELSE phase
    /\ stack' = Front(stack)
    /\ UNCHANGED <<needs, names, saved, inits, finis, closed>>

(* A bug: initialise from the end of the list.                             *)
DoInit_Backwards ==
    /\ phase = "run" /\ stack = <<>> /\ inits = <<>>
    /\ inits' = Reverse(dsoList)
    /\ UNCHANGED <<needs, dsoList, names, stack, saved, tls, finis, closed, threads, phase, loads>>

-----------------------------------------------------------------------------
(* do_init, once, from the C runtime's start: each DSO of the list.        *)
DoInit ==
    /\ phase = "run" /\ stack = <<>> /\ inits = <<>>
    /\ inits' = dsoList
    /\ UNCHANGED <<needs, dsoList, names, stack, saved, tls, finis, closed, threads, phase, loads>>

(* do_fini: along the fini links, the last initialised first.              *)
DoFini ==
    /\ phase = "run" /\ stack = <<>> /\ phase' = "exit"
    /\ finis' = Reverse(inits)
    /\ UNCHANGED <<needs, dsoList, names, stack, saved, tls, inits, closed, threads, loads>>

(* dlclose: DsoList::pop unlinks it; the names keep it.                    *)
Dlclose(d) ==
    /\ phase = "run" /\ stack = <<>> /\ In(d, dsoList) /\ d.name # Prog
    /\ dsoList' = SelectSeq(dsoList, LAMBDA e : e # d) /\ closed' = closed \cup {d}
    /\ UNCHANGED <<needs, names, stack, saved, tls, inits, finis, threads, phase, loads>>

(* __libc_allocate_tcb: push_thread, with all the TLS there is.            *)
PushThread ==
    /\ phase = "run" /\ stack = <<>> /\ Len(threads) < 2
    /\ threads' = Append(threads, TlsEnd(tls))
    /\ UNCHANGED <<needs, dsoList, names, stack, saved, tls, inits, finis, closed, phase, loads>>

LdNext ==
    \/ \E n \in Lib : LoadStart(n)
    \/ LoadDep \/ LoadFailed \/ LoadEnd \/ DoInit \/ DoFini \/ PushThread
    \/ \E n \in Lib, id \in 1 .. loads : Dlclose(Dso(n, id))

LdSpec == LdInit /\ [][LdNext]_ldvars

-----------------------------------------------------------------------------
RECURSIVE NeedsFrom(_, _)
NeedsFrom(S, k) == IF k = 0 THEN S ELSE NeedsFrom(S \cup UNION {ToSet(needs[n]) : n \in S}, k - 1)
Cyclic == \E n \in Lib : n \in NeedsFrom(ToSet(needs[n]), Cardinality(Lib))

(* A library that is skipped because its name is known is really there:    *)
(* in the list or being loaded, until it is closed.  So, if what the       *)
(* libraries need has no cycle and nothing was closed, every symbol is     *)
(* found when a DSO is relocated, and every DSO is initialised after the   *)
(* ones it needs; the thread-local blocks do not overlap; and a thread     *)
(* started by __libc_allocate_tcb has room for those there were.           *)
LinkedInOrder ==
    /\ \A n \in names : \/ \E i \in DOMAIN dsoList : dsoList[i].name = n
                        \/ \E i \in DOMAIN stack : stack[i].name = n
                        \/ \E d \in closed : d.name = n
    /\ (~Cyclic /\ closed = {}) =>
          /\ phase = "panic" => inits = <<>> /\ \A i \in DOMAIN dsoList : dsoList[i].name # Prog
          /\ \A i \in DOMAIN inits : \A m \in ToSet(needs[inits[i].name]) :
                \E j \in 1 .. i - 1 : inits[j].name = m
    /\ \A i, j \in DOMAIN tls : i < j => tls[i].offset + tls[i].size <= tls[j].offset
    /\ Len(threads) = 2 => \A i \in DOMAIN tls :
          tls[i].offset < threads[2] => tls[i].offset + tls[i].size <= threads[2]
=============================================================================
