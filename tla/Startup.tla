------------------------------ MODULE Startup ------------------------------
(***************************************************************************)
(* From restart.sh to a listening server: launch.sh, main of               *)
(* cmd/knoblauch/main.go with Open of internal/db/db.go, and               *)
(* RegisterIntegration and RegisterRoutes of internal/handler/handler.go;  *)
(* and what is there before it: keys/session.key, and the row of the       *)
(* users table that has the bot's name.                                    *)
(*                                                                         *)
(* Whatever main finds wrong ends the process before it listens, except a  *)
(* bot without an account: its name stays registered, for the hint on the  *)
(* page, but this process ignores its mentions.                            *)
(***************************************************************************)
EXTENDS Naturals

CONSTANT MaxKeys  \* bound: signing keys drawn, by openssl or by main

ASSUME MaxKeysAssumption == MaxKeys \in Nat

VARIABLES
  stage,     \* where the server process is
  scripted,  \* whether restart.sh or launch.sh started it
  given,     \* SESSION_SECRET, 0 when it is empty or not set
  fileThere, \* whether there is a file keys/session.key
  keyFile,   \* the key in it, 0 when it is empty and without the file
  drawn,     \* keys drawn so far: the next one is new
  secret,    \* the key the process signs with
  account,   \* the users row with the bot's name: none, a human's or a system one
  migrated,  \* whether migration 003 has been run
  botName,   \* whether the registry has the bot
  botUser,   \* whether systemUserIDs has it
  lookup,    \* history: what RegisterIntegration's query gave, and when
  keysUsed   \* history: the keys of the scripted processes that listened

startVars == <<stage, scripted, given, fileThere, keyFile, drawn, secret, account,
               migrated, botName, botUser, lookup, keysUsed>>

environment == <<drawn, account, migrated>>

NoLookup == [row |-> "none", migrated |-> FALSE]

StartInit ==
  /\ stage = "down"
  /\ scripted = FALSE
  /\ given = 0
  /\ fileThere = FALSE
  /\ keyFile = 0
  /\ drawn = 0
  /\ secret = 0
  /\ account = "none"
  /\ migrated = FALSE
  /\ botName = FALSE
  /\ botUser = FALSE
  /\ lookup = NoLookup
  /\ keysUsed = {}

AlwaysDraws == TRUE        \* mutant of Draws: the file is not looked for

Draws == ~fileThere

\* What launch.sh reads from the file, after making it when there was none.
FileKey == IF Draws THEN drawn + 1 ELSE keyFile

StartProcess(byScript, key) ==
  /\ stage' = "secret"
  /\ scripted' = byScript
  /\ given' = key
  /\ secret' = 0
  /\ botName' = FALSE
  /\ botUser' = FALSE
  /\ lookup' = NoLookup
  /\ UNCHANGED <<account, migrated, keysUsed>>

\* restart.sh: the old process is killed before launch.sh builds the new one.
LaunchByScript ==
  /\ stage \in {"down", "listening"}
  /\ FileKey <= MaxKeys
  /\ fileThere' = TRUE
  /\ keyFile' = FileKey
  /\ drawn' = IF Draws THEN FileKey ELSE drawn
  /\ StartProcess(TRUE, FileKey)

\* By hand, with or without a session secret.
LaunchByHand ==
  /\ stage = "down"
  /\ \E key \in {0, keyFile} : StartProcess(FALSE, key)
  /\ UNCHANGED <<fileThere, keyFile, drawn>>

NoProcess ==
  /\ stage' = "down"
  /\ UNCHANGED <<scripted, given, secret, botName, botUser, lookup, keysUsed, environment>>

\* The shell makes the file before openssl writes to it: when openssl fails, or
\* the script is stopped in between, an empty one stays, and nothing is started.
GenerateFails ==
  /\ stage \in {"down", "listening"}
  /\ Draws
  /\ fileThere' = TRUE
  /\ NoProcess
  /\ UNCHANGED keyFile

Exit == NoProcess /\ UNCHANGED <<fileThere, keyFile>>

\* go build fails, and set -e ends the script when the old process is gone.
BuildFails ==
  /\ stage = "listening"
  /\ Exit

Advance(from, to) ==
  /\ stage = from
  /\ stage' = to
  /\ UNCHANGED <<scripted, given, fileThere, keyFile, account, migrated>>

\* Without a secret one is drawn for this process alone.
ReadSecret ==
  /\ Advance("secret", "database")
  /\ given = 0 => drawn < MaxKeys
  /\ secret' = IF given = 0 THEN drawn + 1 ELSE given
  /\ drawn' = IF given = 0 THEN drawn + 1 ELSE drawn
  /\ UNCHANGED <<botName, botUser, lookup, keysUsed>>

\* db.Open: the pool is made and a ping is answered.
OpenDatabase ==
  /\ Advance("database", "templates")
  /\ UNCHANGED <<drawn, secret, botName, botUser, lookup, keysUsed>>

ParseTemplates ==
  /\ Advance("templates", "integrations")
  /\ UNCHANGED <<drawn, secret, botName, botUser, lookup, keysUsed>>

\* A malformed secret, no database, a template that does not parse, or an
\* address in use.
MainFails ==
  /\ stage \in {"secret", "database", "templates", "listening"}
  /\ Exit

\* GetSystemUserByUsername: a row with this name and is_system.
SystemRow == IF account = "system" THEN "found" ELSE "missing"

\* Register comes before the account is looked up, and nothing looks again.
RegisterIntegration ==
  /\ Advance("integrations", "routes")
  /\ botName' = TRUE
  /\ \E row \in {SystemRow, "error"} :
       /\ lookup' = [row |-> row, migrated |-> migrated]
       /\ botUser' = (row = "found")
  /\ UNCHANGED <<drawn, secret, keysUsed>>

RegisterRoutes ==
  /\ Advance("routes", "listening")
  /\ keysUsed' = IF scripted THEN keysUsed \union {secret} ELSE keysUsed
  /\ UNCHANGED <<drawn, secret, botName, botUser, lookup>>

\* Someone registers under the bot's name.
HumanTakesName ==
  /\ stage = "listening"
  /\ account = "none"
  /\ account' = "human"
  /\ UNCHANGED <<stage, scripted, given, fileThere, keyFile, drawn, secret, migrated,
                 botName, botUser, lookup, keysUsed>>

MigrateNewRow ==   \* mutant of Migrate: ON CONFLICT DO NOTHING
  /\ ~migrated
  /\ migrated' = TRUE
  /\ account' = IF account = "none" THEN "system" ELSE account
  /\ UNCHANGED <<stage, scripted, given, fileThere, keyFile, drawn, secret, botName,
                 botUser, lookup, keysUsed>>

\* Migration 003 inserts the bot's row, or makes the one with its name a system
\* user's: ON CONFLICT DO UPDATE SET is_system = TRUE.
Migrate ==
  /\ ~migrated
  /\ migrated' = TRUE
  /\ account' = "system"
  /\ UNCHANGED <<stage, scripted, given, fileThere, keyFile, drawn, secret, botName,
                 botUser, lookup, keysUsed>>

MainStep ==
  ReadSecret \/ OpenDatabase \/ ParseTemplates \/ RegisterIntegration \/ RegisterRoutes

StartNext ==
  \/ LaunchByScript
  \/ GenerateFails
  \/ LaunchByHand
  \/ BuildFails
  \/ MainStep
  \/ MainFails
  \/ HumanTakesName
  \/ Migrate

StartSpec == StartInit /\ [][StartNext]_startVars
-----------------------------------------------------------------------------
Up == {"secret", "database", "templates", "integrations", "routes", "listening"}

\* Types; a process answers for no bot that its registry does not have, and there
\* is no key without its file.
StartTypeOK ==
  /\ stage \in {"down"} \union Up
  /\ keyFile \in 0..MaxKeys /\ drawn \in 0..MaxKeys /\ secret \in 0..MaxKeys
  /\ account \in {"none", "human", "system"}
  /\ botUser => botName
  /\ keyFile # 0 => fileThere

\* However often restart.sh is run, and whatever processes without a secret run
\* in between, its processes sign with one key, so that a restart by it ends no
\* session; unless the key could not be written when the file was made, for then
\* the file stays empty and every process signs with a key of its own.
RestartsKeepKey ==
  \A j, k \in keysUsed : j # k => fileThere /\ keyFile = 0

\* The bot speaks through a system user's row only, though someone may have
\* registered under its name before the migration; and when this process does not
\* answer for the bot that its pages offer, its lookup failed or the migration had
\* not been run when it started, so that no second start is silent for that.
BotAccountIsRight ==
  /\ botUser => account = "system"
  /\ stage = "listening" /\ botName /\ ~botUser =>
       lookup.row = "error" \/ ~lookup.migrated
=============================================================================
