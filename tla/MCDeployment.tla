---------------------------- MODULE MCDeployment ----------------------------
(* A small instance of Deployment: the first commit brings a global table   *)
(* and a tenant's, the last a further tenant's.                             *)
EXTENDS Deployment

CONSTANTS organizations, users, api_keys
MCAddedBy == [v \in 1 .. Releases |->
                IF v = 1 THEN {organizations, users} ELSE IF v = Releases THEN {api_keys} ELSE {}]
=============================================================================
