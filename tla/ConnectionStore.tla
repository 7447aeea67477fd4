--------------------------- MODULE ConnectionStore ---------------------------
(***************************************************************************)
(* What packages/storage keeps of one OAuth connection: its row of         *)
(* upstream_connections and the oauth_transactions opened for it.  Every   *)
(* statement is atomic; nothing spans two of them.                         *)
(*                                                                         *)
(* A token is named by the authorization that began its grant (its line):  *)
(* at is the line of the stored access token, rt the line and generation   *)
(* of the stored refresh token.  age stands for access_token_expires_at    *)
(* against the clock.                                                      *)
(***************************************************************************)
EXTENDS Naturals

CONSTANTS
  Txn,       \* authorization transactions
  Line,      \* grants: one per transaction, and the one the row starts with
  None       \* null

ASSUME LineAssumption == Txn \subseteq Line /\ None \notin Line
ASSUME NoneIsNoToken == None \notin Line \X Nat

VARIABLES
  row,       \* the connection's row; its status is "GONE" once deleted
  age,       \* "fresh"; "due": within the worker's horizon of expiry;
             \* "expired": within the safety window of expiry, or past it
  txn,       \* txn[t]: "absent" (not created), the row's status, "purged"
  late       \* late[t]: expires_at of t has passed

storeVars == <<row, age, txn, late>>

Status == {"AUTHORIZATION_REQUIRED", "CLIENT_CREDENTIALS_REQUIRED",
           "CONNECTED", "CONNECTED_NON_REFRESHABLE", "DEGRADED",
           "REAUTH_REQUIRED", "DISABLED"}

RefreshToken == Line \X Nat

Row == [status : Status \cup {"GONE"}, ver : Nat,
        at : Line \cup {None}, rt : RefreshToken \cup {None}]

StoreTypeOK ==
  /\ row \in Row
  /\ age \in {"fresh", "due", "expired"}
  /\ txn \in [Txn -> {"absent", "PENDING", "CONSUMED", "FAILED", "purged"}]
  /\ late \in [Txn -> BOOLEAN]

Gone == row.status = "GONE"

(***************************************************************************)
(* Statements on the row                                                   *)
(***************************************************************************)

\* connections.update: whatever the row holds by now, if it is still there.
Update(patched) == row' = IF Gone THEN row ELSE patched

SetStatus(s) == Update([row EXCEPT !.status = s])

\* connections.updateTokens: the compare-and-swap, and whether it applied.
SwapApplies(expected) == ~Gone /\ row.ver = expected

\* Mutant of UpdateTokens: the version is written but not compared.
UpdateTokensBlindly(expected, at, rt) ==
  IF Gone
  THEN UNCHANGED <<row, age>>
  ELSE /\ row' = [status |-> IF rt = None THEN "CONNECTED_NON_REFRESHABLE"
                             ELSE "CONNECTED",
                  ver |-> expected + 1, at |-> at, rt |-> rt]
       /\ age' = "fresh"

UpdateTokens(expected, at, rt) ==
  IF SwapApplies(expected)
  THEN /\ row' = [status |-> IF rt = None THEN "CONNECTED_NON_REFRESHABLE"
                             ELSE "CONNECTED",
                  ver |-> expected + 1, at |-> at, rt |-> rt]
       /\ age' = "fresh"
  ELSE UNCHANGED <<row, age>>

DeleteRow == row' = [status |-> "GONE", ver |-> 0, at |-> None, rt |-> None]

(***************************************************************************)
(* Statements on a transaction                                             *)
(***************************************************************************)

CreateTransaction(t) ==
  /\ txn[t] = "absent"
  /\ txn' = [txn EXCEPT ![t] = "PENDING"]

Found(t) == txn[t] \notin {"absent", "purged"}

\* Mutant of Consumable: any transaction still there, used or not.
ConsumableAgain(t) == Found(t)

\* Marks it used where it is PENDING; its caller proceeds only then.
Consumable(t) == txn[t] = "PENDING"

Consume(t) == txn' = [txn EXCEPT ![t] = IF Consumable(t) THEN "CONSUMED" ELSE @]

\* Whatever its status was.
Fail(t) == txn' = [txn EXCEPT ![t] = IF Found(t) THEN "FAILED" ELSE @]

\* The worker deletes what is past its expiry, used or not.
PurgeExpired(t) ==
  /\ Found(t)
  /\ late[t]
  /\ txn' = [txn EXCEPT ![t] = "purged"]
  /\ UNCHANGED <<row, age, late>>

(***************************************************************************)
(* The clock                                                               *)
(***************************************************************************)

AccessTokenAges ==
  /\ ~Gone /\ row.at # None
  /\ \/ age = "fresh" /\ age' = "due"
     \/ age = "due" /\ age' = "expired"
  /\ UNCHANGED <<row, txn, late>>

TransactionExpires(t) ==
  /\ Found(t)
  /\ ~late[t]
  /\ late' = [late EXCEPT ![t] = TRUE]
  /\ UNCHANGED <<row, age, txn>>

=============================================================================
