------------------------------ MODULE MCKdebug ------------------------------
(* Instances of Kdebug for TLC: tables of seven entries, kernel addresses   *)
(* from 1 on, user addresses below.                                         *)
EXTENDS Kdebug, Sequences

(* The orders in which a compiler emits stabs: functions with parameters,  *)
(* lines from an included file, two functions in a file, an assembly file  *)
(* with lines only, and a file that ends the table.                        *)
Shapes ==
  {<<"UNDF", "SO", "FUN", "PSYM", "SLINE", "SLINE", "SO">>,
   <<"UNDF", "SO", "FUN", "SOL", "SLINE", "SOL", "SLINE">>,
   <<"UNDF", "SO", "FUN", "SLINE", "FUN", "SLINE", "SO">>,
   <<"UNDF", "SO", "SLINE", "SLINE", "SO", "FUN", "SLINE">>,
   <<"UNDF", "SO", "FUN", "PSYM", "PSYM", "SLINE", "SLINE">>}

(* Only stabs with an address get different values. *)
ValuesOf(type) ==
  CASE type \in {"SO", "FUN"} -> 1..3
    [] type = "SLINE"         -> 0..2
    [] OTHER                  -> {0}

TableOf(shape, v, bad) ==
  [k \in Index |-> [n_type |-> shape[k + 1], n_value |-> v[k],
                    named |-> k # bad]]

Rising(shape, v, type) ==
  \A j, k \in Index : j < k /\ shape[j + 1] = type /\ shape[k + 1] = type
                        => v[j] < v[k]

(* Source files and functions in order; lines in order from one source     *)
(* file or function to the next.                                           *)
Sorted(shape, v) ==
  /\ Rising(shape, v, "SO")
  /\ Rising(shape, v, "FUN")
  /\ \A k \in 1..NStabs-1 : shape[k + 1] = "FUN" => v[k] >= v[1]
  /\ \A j, k \in Index :
       /\ j < k
       /\ \A i \in j..k : shape[i + 1] \notin {"SO", "FUN"}
       /\ shape[j + 1] = "SLINE" /\ shape[k + 1] = "SLINE"
       => v[j] < v[k]

ValueChoices(shape) ==
  {v \in [Index -> 0..3] :
     /\ \A k \in Index : v[k] \in ValuesOf(shape[k + 1])
     /\ Sorted(shape, v)}

(* One stab may have a name outside the string table. *)
KernelTables ==
  UNION {{TableOf(s, v, bad) : v \in ValueChoices(s), bad \in {0, 2}} :
         s \in Shapes}
=============================================================================
