---------------------------- MODULE AccountServer ----------------------------
(***************************************************************************)
(* Accounts on a server that starts and stops.  Stored passwords are       *)
(* encrypted with a key that the server reads from a file when it starts,  *)
(* or makes.  The file is written in place: the server, or the machine,    *)
(* may go down while it is being written.  Other things happen to the file *)
(* too: a container without its volume starts without it, and reading it   *)
(* may fail.                                                               *)
(***************************************************************************)
EXTENDS Accounts

CONSTANTS Keys,       \* random: a key made is one that nothing knows
          NoFile,     \* there is no file, or one with less than 32 bytes
          Unsealed    \* there is no password, or no server

ASSUME KeysAssumption == NoFile \notin Keys /\ Unsealed \notin Keys

VARIABLES
  keyFile,  \* what the key file holds
  key,      \* the key of the server that runs
  sealed,   \* the key with which the password is encrypted
  lost      \* history: the keys that were on file and are no longer

server_vars == <<keyFile, key, sealed, lost>>
all_vars == <<vars, server_vars>>

Up == key # Unsealed

ServerTypeOK ==
  /\ keyFile \in Keys \cup {NoFile}
  /\ key \in Keys \cup {Unsealed}
  /\ sealed \in [Users -> Keys \cup {Unsealed}]
  /\ \A u \in Users : sealed[u] = Unsealed <=> password[u] = NoPassword
  /\ lost \subseteq Keys
  /\ ~Up => \A q \in Requests : req[q] = NoRequest

ServerInit ==
  /\ Init
  /\ keyFile = NoFile
  /\ key = Unsealed
  /\ sealed = [u \in Users |-> Unsealed]
  /\ lost = {}

----------------------------------------------------------------------------
\* The server starts and stops.

\* No key is made twice.
Fresh(k) == k \notin {keyFile, key} \cup lost \cup {sealed[u] : u \in Users}

\* Variant: the server goes on with a key that it could not write.
CreateKey_Unwritten(k) ==
  /\ Fresh(k)
  /\ key' = k
  /\ keyFile' \in {k, NoFile}

\* A key is made and written, or the start ends with the file as it was or cut short.
CreateKey(k) ==
  /\ Fresh(k)
  /\ \/ key' = k /\ keyFile' = k
     \/ key' = key /\ keyFile' \in {keyFile, NoFile}

\* If the file can be read and is long enough its key is used.  Whatever else
\* keeps it from being read, a key is made in its place.
LoadOrCreateKey(readable) ==
  /\ ~Up
  /\ IF readable /\ keyFile # NoFile
       THEN key' = keyFile /\ UNCHANGED <<keyFile, lost>>
       ELSE /\ \E k \in Keys : CreateKey(k)
            /\ lost' = lost \cup ({keyFile} \ {NoFile, keyFile'})
  /\ UNCHANGED <<vars, sealed>>

\* A container is started without its volume; a file is damaged.
LoseFile ==
  /\ keyFile # NoFile
  /\ keyFile' = NoFile
  /\ lost' = lost \cup {keyFile}
  /\ UNCHANGED <<vars, key, sealed>>

\* A crash, or a shutdown that does not wait any longer: requests end anywhere.
Stop ==
  /\ Up
  /\ key' = Unsealed
  /\ req' = [q \in Requests |-> NoRequest]
  /\ UNCHANGED <<docs, keyFile, sealed, lost>>
  /\ History({req[q].user : q \in {p \in Requests : Interrupted(p)}})

----------------------------------------------------------------------------
\* Requests.

\* A password is compared with one given only if it can be decrypted.
Decrypts(u) == password[u] # NoPassword => sealed[u] = key

\* The user whose password is compared in this step, with success.
Verified(q) ==
  CASE At(q, "login", "find") /\ req'[q].step = "setKey" -> {req'[q].user}
    [] At(q, "password", "readUser") /\ req'[q].step = "writePassword" -> {req[q].user}
    [] OTHER -> {}

\* Variant: only registration encrypts.
Encrypted_AtRegistration == {u \in Users : \E q \in Requests :
  req[q].step = "put" /\ account[u] = "unused" /\ account'[u] = "active"}

\* The users whose password is written in this step.
Encrypted == {u \in Users : \E q \in Requests :
  \/ req[q].step = "put" /\ account[u] = "unused" /\ account'[u] = "active"
  \/ At(q, "password", "writePassword") /\ req'[q].step = "setKey" /\ req[q].user = u}

\* The requests of Accounts, on a server that runs.
Serve ==
  /\ Up
  /\ Next
  /\ \A q \in Requests : \A u \in Verified(q) : Decrypts(u)
  /\ sealed' = [u \in Users |-> IF password'[u] = NoPassword THEN Unsealed
                                ELSE IF u \in Encrypted THEN key ELSE sealed[u]]
  /\ UNCHANGED <<keyFile, key, lost>>

ServerNext ==
  \/ \E readable \in BOOLEAN : LoadOrCreateKey(readable)
  \/ LoseFile \/ Stop
  \/ Serve

ServerSpec == ServerInit /\ [][ServerNext]_all_vars

----------------------------------------------------------------------------
\* Properties.

\* Through starts, crashes and failed writes of the key file, the server that runs
\* can decrypt every stored password, unless the file that held its key was lost
\* or, read in vain, written over: no password is ever encrypted with a key that is not on
\* file.
PasswordsReadable ==
  Up => \A u \in Users : Active(u) => Decrypts(u) \/ sealed[u] \in lost
=============================================================================
