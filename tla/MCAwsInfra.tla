---------------------------- MODULE MCAwsInfra ----------------------------
(* Small accounts for AwsInfra: who shares which configuration and VPC.    *)
EXTENDS AwsInfra

CONSTANTS r1, r2, r3, f1, f2, c1, c2, percona, pem

\* One configuration, all resources ask for the same vpc_name.
OneCloudOf == [r \in Resource |-> c1]
SameName == [v \in Resource \cup Foreign |-> percona]
ById == [r \in Resource |-> None]

\* All resources use one key pair, kept in one file.
OneKey == [r \in Resource |-> percona]
OneFile == [r \in Resource |-> pem]

\* Two configurations: r1 is managed by c1, the others by c2.
TwoCloudsOf == [r \in Resource |-> IF r = r1 THEN c1 ELSE c2]

\* f1 bears the name percona, f2 has none; r1 asks for f2 by its id, r2 for
\* percona, and r3 for no VPC in particular.
MixedName == [v \in Resource \cup Foreign |->
                CASE v = f1 -> percona [] v = r2 -> percona [] OTHER -> None]
MixedId == [r \in Resource |-> IF r = r1 THEN f2 ELSE None]
===========================================================================
