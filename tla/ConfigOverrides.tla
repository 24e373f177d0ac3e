--------------------------- MODULE ConfigOverrides ---------------------------
(***************************************************************************)
(* The overrides that ConfigSources holds and the properties of            *)
(* AppProperties (simple_data.hpp), which give variables their values.     *)
(***************************************************************************)
EXTENDS EnvText

VARIABLES
    cli,        \* cli_overrides_
    env,        \* the environment of the process
    over,       \* env_overrides_
    props,      \* the properties of the AppProperties built last
    built       \* one was built

configVars == <<cli, env, over, props, built>>

(* The entries of new replace those of old.                                *)
Over(old, new) == [k \in DOMAIN old \cup DOMAIN new |-> IF k \in DOMAIN new THEN new[k] ELSE old[k]]

ConfigInit ==
    /\ cli = [k \in {} |-> 0] /\ env = [k \in {} |-> 0] /\ over = [k \in {} |-> 0]
    /\ props = [k \in {} |-> 0] /\ built = FALSE

-----------------------------------------------------------------------------
(* Overrides may come at any time.                                         *)

SetCliOverride(k, v) ==
    /\ cli' = Over(cli, [x \in {k} |-> v])
    /\ UNCHANGED <<env, over, props, built>>
MergeEnvOverrides(m) ==
    /\ over' = Over(over, m)
    /\ UNCHANGED <<cli, env, props, built>>
SetEnv(k, v) ==
    /\ env' = Over(env, [x \in {k} |-> v])
    /\ UNCHANGED <<cli, over, props, built>>

(* AppProperties puts the overrides over what it found in files, and hands *)
(* the outcome to ConfigSources, which keeps it under the environment and  *)
(* the command line.                                                       *)
KeepProperties(found) ==
    LET all == Over(Over(found, over), cli)
    IN /\ props' = all /\ over' = Over(over, all) /\ built' = TRUE
       /\ UNCHANGED <<cli, env>>
=============================================================================
