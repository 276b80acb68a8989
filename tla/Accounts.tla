------------------------------ MODULE Accounts ------------------------------
(***************************************************************************)
(* The verification codes of user-service, and the password reset they     *)
(* allow: the codes of one account for the scene RESET_PASSWORD.           *)
(*                                                                         *)
(* A request reads the newest code without a lock and writes the number of *)
(* attempts and the status it computed; work[h] is what it read.           *)
(***************************************************************************)
EXTENDS Sessions

CONSTANTS
  Codes,        \* rows of verification_codes, in the order they are created
  MaxAttempts   \* verify_code_max_attempts

ASSUME AccountAssumption == Codes \subseteq Nat \ {0} /\ MaxAttempts \in Nat

VARIABLES
  code,    \* code[c]: the row
  work,    \* work[h]: the verification in handler h
  tried    \* history of each code: guesses compared, guesses that passed, and
           \* whether a request wrote a row that had changed since it was read

codeVars == <<code, work, tried>>

CodeRow == [status : {"NONE", "PENDING", "USED", "LOCKED", "EXPIRED"},
            attempts : 0..(MaxAttempts + 1), due : BOOLEAN]
\* reset is the account's user row for a password reset, NoUser for a verification.
Verification == [op : {"verify", "reset"}, code : Codes, seen : CodeRow,
                 right : BOOLEAN, reset : Users \cup {NoUser}]

CodesInit ==
  /\ code = [c \in Codes |-> [status |-> "NONE", attempts |-> 0, due |-> FALSE]]
  /\ work = [h \in Handlers |-> Idle]
  /\ tried = [c \in Codes |-> [guesses |-> 0, passed |-> 0, overlapped |-> FALSE]]

Newest(c) == code[c].status # "NONE" /\ \A d \in Codes : d > c => code[d].status = "NONE"

IssueCode(c) ==
  /\ code[c].status = "NONE"
  /\ \A d \in Codes : d < c => code[d].status # "NONE"
  /\ code' = [code EXCEPT ![c].status = "PENDING"]
  /\ UNCHANGED <<work, tried>>

\* Time passes expires_at.
CodeExpires(c) ==
  /\ code[c].status = "PENDING" /\ ~code[c].due
  /\ code' = [code EXCEPT ![c].due = TRUE]
  /\ UNCHANGED <<work, tried>>

\* verify_code up to its write; reset_password looks its user up first.
VerifyRead(h, c, u) ==
  /\ work[h] = Idle
  /\ u # NoUser => user[u].status # "NONE" /\ ~user[u].closed
  /\ Newest(c) /\ code[c].status = "PENDING"
  /\ \E right \in BOOLEAN :
       work' = [work EXCEPT ![h] =
         [op |-> "verify", code |-> c, seen |-> code[c], right |-> right, reset |-> u]]
  /\ UNCHANGED <<code, tried>>

\* Variant: a wrong guess is counted in the request only.
CheckedUncounted(row, seen, right) ==
  IF seen.due THEN [row EXCEPT !.status = "EXPIRED"]
  ELSE IF right THEN [row EXCEPT !.attempts = seen.attempts + 1, !.status = "USED"]
  ELSE row

\* The row as a request leaves it that read it as seen.  Columns it did not
\* change stay as they are in the database.
Checked(row, seen, right) ==
  IF seen.due THEN [row EXCEPT !.status = "EXPIRED"]
  ELSE LET counted == [row EXCEPT !.attempts = seen.attempts + 1] IN
       IF seen.attempts + 1 > MaxAttempts THEN [counted EXCEPT !.status = "LOCKED"]
       ELSE IF right THEN [counted EXCEPT !.status = "USED"]
       ELSE counted

VerifyWrite(h) ==
  /\ work[h] # Idle /\ work[h].op = "verify"
  /\ LET c == work[h].code
         seen == work[h].seen
         compared == ~seen.due /\ seen.attempts < MaxAttempts
         passed == compared /\ work[h].right
     IN  /\ code' = [code EXCEPT ![c] = Checked(code[c], seen, work[h].right)]
         /\ tried' = [tried EXCEPT ![c] =
              [guesses |-> @.guesses + (IF compared THEN 1 ELSE 0),
               passed |-> @.passed + (IF passed THEN 1 ELSE 0),
               overlapped |-> @.overlapped \/ code[c].status # "PENDING"
                                           \/ code[c].attempts # seen.attempts]]
         /\ work' = [work EXCEPT ![h] =
              IF passed /\ @.reset # NoUser THEN [@ EXCEPT !.op = "reset"] ELSE Idle]

\* The rest of reset_password: the new password may be the old one, and the
\* sessions end only if the caller asks for it.  The code is used either way.
ResetWrite(h) ==
  /\ work[h] # Idle /\ work[h].op = "reset"
  /\ \/ token' = Sweep(work[h].reset) /\ Overtaken(work[h].reset, "none")
     \/ UNCHANGED <<token, req>>
  /\ work' = [work EXCEPT ![h] = Idle]
  /\ UNCHANGED <<code, tried, user, announced, forked>>
-----------------------------------------------------------------------------
\* The codes and requests have their types.
CodesTypeOK ==
  /\ code \in [Codes -> CodeRow]
  /\ work \in [Handlers -> Verification \cup {Idle}]
  /\ tried \in [Codes -> [guesses : Nat, passed : Nat, overlapped : BOOLEAN]]

(***************************************************************************)
(* A code that no two requests worked on at the same time is compared with *)
(* at most max_attempts guesses and passes once.  Overlapping requests     *)
(* write over each other's count, so more guesses are compared then.       *)
(***************************************************************************)
GuessesLimited ==
  \A c \in Codes :
    ~tried[c].overlapped => tried[c].guesses <= MaxAttempts /\ tried[c].passed <= 1
=============================================================================
