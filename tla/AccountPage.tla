----------------------------- MODULE AccountPage -----------------------------
(* The account page (frontend pages/Account, lib/webauthn): the passkeys of the account,
   which it edits in the list it has already read, and the sign-ins, which it reads again
   after it has revoked the others.  The two lists are read differently: a read of the
   passkeys counts only while it is the latest, one of the sign-ins is shown whenever it
   comes.                                                                       *)
EXTENDS Integers, FiniteSets, Sequences, SequencesExt

CONSTANTS KeyIds,        \* passkeys the account can ever have; the newest is the greatest
          SignIns,       \* sign-ins of the account; "here" is this browser's
          AccountStarts  \* bound: what the account holds at first and what may happen

ASSUME KeyIdsAssumption == KeyIds \subseteq Nat \ {0} /\ "here" \in SignIns

VARIABLES keys, nextKey,      \* (external) the passkeys of the account and their numbering
          signIns,            \* (external) its sign-ins
          keyRows, keysError, \* passkeys, passkeysError
          signRows, signError,\* sessions, sessionsError
          reads,              \* reads in flight, by who asked
          add, del, out,      \* the three dialogs
          mixed,              \* (history) the passkeys changed beside a read, or unheard of
          aleft               \* what is left of the bounds

accountVars == <<keys, nextKey, signIns, keyRows, keysError, signRows, signError, reads, add, del, out,
                 mixed, aleft>>
held == <<keys, nextKey, signIns>>
dialogsOfAccount == <<add, del, out>>
keyList == <<keyRows, keysError>>
signList == <<signRows, signError>>

Spent(b) == aleft[b] > 0 /\ aleft' = [aleft EXCEPT ![b] = @ - 1]

Unread == <<"unread">>
NoKeysYet == <<0>>
\* Who asks: each list when the page opens or is retried, the sign-ins also when they were
\* revoked; the read of sign-ins a retry replaced is still shown when it comes.
Slots == {"keys", "signs", "replaced", "revoked"}
NoRead == [on |-> FALSE, served |-> FALSE, rows |-> <<>>]
Begun == [NoRead EXCEPT !.on = TRUE]
Newest(S) == SetToSortSeq(S, LAMBDA x, y : x > y)

Closed == [open |-> FALSE, busy |-> "no", failed |-> FALSE]
Opened == [Closed EXCEPT !.open = TRUE]
NoAdd == [open |-> FALSE, busy |-> "no", failed |-> FALSE, key |-> 0]

AccountInit ==
    \E s \in AccountStarts :
        /\ keys = s.keys /\ nextKey = Cardinality(s.keys) + 1 /\ signIns = s.signIns
        /\ keyRows = NoKeysYet /\ keysError = FALSE /\ signRows = Unread /\ signError = FALSE
        /\ reads = [k \in Slots |-> IF k \in {"keys", "signs"} THEN Begun ELSE NoRead]
        /\ add = NoAdd /\ del = [target |-> 0, busy |-> "no", failed |-> FALSE]
        /\ out = Closed
        /\ mixed = FALSE /\ aleft = s.left

-----------------------------------------------------------------------------
(* Reading the two lists.                                                    *)

ReadServed(k) ==
    /\ reads[k].on /\ ~reads[k].served
    /\ reads' = [reads EXCEPT ![k].served = TRUE,
                              ![k].rows = IF k = "keys" THEN Newest(keys)
                                          ELSE SetToSeq(signIns)]
    /\ UNCHANGED <<held, keyList, signList, dialogsOfAccount, mixed, aleft>>

KeysArrive ==
    /\ reads["keys"].served
    /\ keyRows' = reads["keys"].rows /\ keysError' = FALSE
    /\ reads' = [reads EXCEPT !["keys"] = NoRead]
    /\ UNCHANGED <<held, signList, dialogsOfAccount, mixed, aleft>>

\* loadSessions: shown whichever read it is.
SignInsArrive(k) ==
    /\ k # "keys" /\ reads[k].served
    /\ signRows' = reads[k].rows /\ signError' = FALSE
    /\ reads' = [reads EXCEPT ![k] = NoRead]
    /\ UNCHANGED <<held, keyList, dialogsOfAccount, mixed, aleft>>

\* A read that fails takes its list off the page, unless it was replaced meanwhile.
ReadFailsQuietly(k) ==
    /\ reads[k].on /\ Spent("fault")
    /\ reads' = [reads EXCEPT ![k] = NoRead]
    /\ UNCHANGED <<held, keyRows, keysError, signRows, signError, dialogsOfAccount, mixed>>

ReadFails(k) ==
    /\ reads[k].on /\ Spent("fault")
    /\ reads' = [reads EXCEPT ![k] = NoRead]
    /\ keysError' = (keysError \/ k = "keys")
    /\ signError' = (signError \/ k \in {"signs", "revoked"})
    /\ UNCHANGED <<held, keyRows, signRows, dialogsOfAccount, mixed>>

RetryKeys ==
    /\ keysError /\ Spent("retry")
    /\ keysError' = FALSE /\ reads' = [reads EXCEPT !["keys"] = Begun]
    /\ mixed' = (mixed \/ add.busy = "done" \/ del.busy = "done")
    /\ UNCHANGED <<held, keyRows, signList, dialogsOfAccount>>

RetrySignIns ==
    /\ signError /\ Spent("retry") /\ ~reads["replaced"].on
    /\ signError' = FALSE
    /\ reads' = [reads EXCEPT !["replaced"] = reads["signs"], !["signs"] = Begun]
    /\ UNCHANGED <<held, keyList, signRows, dialogsOfAccount, mixed>>

-----------------------------------------------------------------------------
(* The passkeys.                                                             *)

\* A page that shows neither an error nor a skeleton shows its rows.
ListedKeys == keyRows # NoKeysYet /\ ~keysError
RowsOrNone == IF keyRows = NoKeysYet THEN <<>> ELSE keyRows

OpenAdd ==
    /\ add.busy = "no" /\ ~add.open /\ Spent("add")
    /\ add' = [NoAdd EXCEPT !.open = TRUE]
    /\ UNCHANGED <<held, keyList, signList, reads, del, out, mixed>>

\* begin, the authenticator, finish; a dialog that is busy cannot be closed.
ConfirmAdd ==
    /\ add.open /\ add.busy = "no" /\ Spent("try")
    /\ add' = [add EXCEPT !.busy = "begin", !.failed = FALSE]
    /\ UNCHANGED <<held, keyList, signList, reads, del, out, mixed>>

Authenticated ==
    /\ add.busy = "begin"
    /\ add' = [add EXCEPT !.busy = "finish"]
    /\ UNCHANGED <<held, keyList, signList, reads, del, out, mixed, aleft>>

\* The person lets go of the authenticator's own dialog: not a failure.
AuthenticatorDeclined ==
    /\ add.busy = "begin" /\ Spent("fault")
    /\ add' = NoAdd
    /\ UNCHANGED <<held, keyList, signList, reads, del, out, mixed>>

KeyRegistered ==
    /\ add.busy = "finish" /\ nextKey \in KeyIds
    /\ keys' = keys \cup {nextKey} /\ nextKey' = nextKey + 1
    /\ add' = [add EXCEPT !.busy = "done", !.key = nextKey]
    /\ mixed' = (mixed \/ reads["keys"].on)
    /\ UNCHANGED <<signIns, keyList, signList, reads, del, out, aleft>>

\* The server orders by id, the newest first: the new row goes in front.
AddLandsLast ==
    /\ add.busy = "done"
    /\ keyRows' = Append(RowsOrNone, add.key)
    /\ add' = NoAdd
    /\ UNCHANGED <<held, keysError, signList, reads, del, out, mixed, aleft>>

AddLands ==
    /\ add.busy = "done"
    /\ keyRows' = <<add.key>> \o RowsOrNone
    /\ add' = NoAdd
    /\ mixed' = (mixed \/ reads["keys"].on \/ keyRows = NoKeysYet)
    /\ UNCHANGED <<held, keysError, signList, reads, del, out, aleft>>

AddFailsBusy ==
    /\ add.busy # "no"
    /\ \/ add.busy = "finish" /\ nextKey \notin KeyIds /\ UNCHANGED <<mixed, aleft>>
       \/ Spent("fault") /\ mixed' = (mixed \/ add.busy = "done")
    /\ add' = [add EXCEPT !.failed = TRUE]
    /\ UNCHANGED <<held, keyList, signList, reads, del, out>>

\* A failure is shown in the dialog; one of them is that the account has all it may have.
AddFails ==
    /\ add.busy # "no"
    /\ \/ add.busy = "finish" /\ nextKey \notin KeyIds /\ UNCHANGED <<mixed, aleft>>
       \/ Spent("fault") /\ mixed' = (mixed \/ add.busy = "done")
    /\ add' = [add EXCEPT !.busy = "no", !.failed = TRUE]
    /\ UNCHANGED <<held, keyList, signList, reads, del, out>>

CloseDialogBusy ==
    \/ /\ add.open /\ add' = [add EXCEPT !.open = FALSE]
       /\ UNCHANGED <<held, keyList, signList, reads, del, out, mixed, aleft>>
    \/ /\ del.target # 0 /\ del.busy = "no" /\ del' = [del EXCEPT !.target = 0, !.failed = FALSE]
       /\ UNCHANGED <<held, keyList, signList, reads, add, out, mixed, aleft>>
    \/ /\ out.open /\ out.busy = "no" /\ out' = Closed
       /\ UNCHANGED <<held, keyList, signList, reads, add, del, mixed, aleft>>

\* A dialog is closed by its button, its cross or beside it, not while it is busy.
CloseDialog ==
    \/ /\ add.open /\ add.busy = "no" /\ add' = NoAdd
       /\ UNCHANGED <<held, keyList, signList, reads, del, out, mixed, aleft>>
    \/ /\ del.target # 0 /\ del.busy = "no" /\ del' = [del EXCEPT !.target = 0, !.failed = FALSE]
       /\ UNCHANGED <<held, keyList, signList, reads, add, out, mixed, aleft>>
    \/ /\ out.open /\ out.busy = "no" /\ out' = Closed
       /\ UNCHANGED <<held, keyList, signList, reads, add, del, mixed, aleft>>

AskDelete(k) ==
    /\ ListedKeys /\ k \in ToSet(keyRows) /\ del.target = 0 /\ Spent("delete")
    /\ del' = [target |-> k, busy |-> "no", failed |-> FALSE]
    /\ UNCHANGED <<held, keyList, signList, reads, add, out, mixed>>

ConfirmDelete ==
    /\ del.target # 0 /\ del.busy = "no" /\ Spent("try")
    /\ del' = [del EXCEPT !.busy = "asked", !.failed = FALSE]
    /\ UNCHANGED <<held, keyList, signList, reads, add, out, mixed>>

\* A passkey that is gone already is refused (PasskeyNotFound).
DeleteServed ==
    /\ del.busy = "asked"
    /\ keys' = keys \ {del.target} /\ UNCHANGED nextKey
    /\ del' = [del EXCEPT !.busy = IF del.target \in keys THEN "done" ELSE "refused"]
    /\ mixed' = (mixed \/ reads["keys"].on)
    /\ UNCHANGED <<signIns, keyList, signList, reads, add, out, aleft>>

DeleteLandsOnScreen ==
    /\ del.busy = "done"
    /\ keyRows' = keyRows
    /\ del' = [target |-> 0, busy |-> "no", failed |-> FALSE]
    /\ UNCHANGED <<held, keysError, signList, reads, add, out, mixed, aleft>>

DeleteLands ==
    /\ del.busy = "done"
    /\ keyRows' = SelectSeq(RowsOrNone, LAMBDA k : k # del.target)
    /\ del' = [target |-> 0, busy |-> "no", failed |-> FALSE]
    /\ UNCHANGED <<held, keysError, signList, reads, add, out, mixed, aleft>>

DeleteFails ==
    /\ \/ del.busy = "refused" /\ UNCHANGED <<mixed, aleft>>
       \/ /\ del.busy \in {"asked", "done"} /\ Spent("fault")
          /\ mixed' = (mixed \/ del.busy = "done")
    /\ del' = [del EXCEPT !.busy = "no", !.failed = TRUE]
    /\ UNCHANGED <<held, keyList, signList, reads, add, out>>

-----------------------------------------------------------------------------
(* The sign-ins.                                                             *)

Others == IF signRows = Unread THEN {} ELSE ToSet(signRows) \ {"here"}

AskSignOutOthers ==
    /\ Others # {} /\ ~out.open /\ Spent("out")
    /\ out' = Opened
    /\ UNCHANGED <<held, keyList, signList, reads, add, del, mixed>>

ConfirmSignOutOthers ==
    /\ out.open /\ out.busy = "no" /\ Spent("try")
    /\ out' = [out EXCEPT !.busy = "asked", !.failed = FALSE]
    /\ UNCHANGED <<held, keyList, signList, reads, add, del, mixed>>

OthersRevoked ==
    /\ out.busy = "asked"
    /\ signIns' = {"here"}
    /\ out' = [out EXCEPT !.busy = "done"]
    /\ UNCHANGED <<keys, nextKey, keyList, signList, reads, add, del, mixed, aleft>>

\* They are gone: the dialog closes now, and the list is read apart from it.
SignedOutUnread ==
    /\ out.busy = "done" /\ ~reads["revoked"].on
    /\ out' = Closed
    /\ UNCHANGED <<held, keyList, signList, reads, add, del, mixed, aleft>>

SignedOut ==
    /\ out.busy = "done" /\ ~reads["revoked"].on
    /\ out' = Closed
    /\ reads' = [reads EXCEPT !["revoked"] = Begun]
    /\ UNCHANGED <<held, keyList, signList, add, del, mixed, aleft>>

SignOutFails ==
    /\ out.busy \in {"asked", "done"} /\ Spent("fault")
    /\ out' = [out EXCEPT !.busy = "no", !.failed = TRUE]
    /\ UNCHANGED <<held, keyList, signList, reads, add, del, mixed>>

\* Another tab takes a passkey away; another browser signs in.
KeyElsewhere ==
    /\ Spent("elsewhere")
    /\ \/ \E k \in keys : keys' = keys \ {k} /\ mixed' = TRUE /\ UNCHANGED signIns
       \/ \E s \in SignIns \ signIns : signIns' = signIns \cup {s} /\ UNCHANGED <<keys, mixed>>
    /\ UNCHANGED <<nextKey, keyList, signList, reads, dialogsOfAccount>>

AccountNext ==
    \/ \E k \in Slots : ReadServed(k) \/ SignInsArrive(k) \/ ReadFails(k)
    \/ KeysArrive \/ RetryKeys \/ RetrySignIns
    \/ OpenAdd \/ ConfirmAdd \/ Authenticated \/ AuthenticatorDeclined \/ KeyRegistered
    \/ AddLands \/ AddFails \/ CloseDialog
    \/ (\E k \in KeyIds : AskDelete(k)) \/ ConfirmDelete \/ DeleteServed \/ DeleteLands \/ DeleteFails
    \/ AskSignOutOthers \/ ConfirmSignOutOthers \/ OthersRevoked \/ SignedOut \/ SignOutFails
    \/ KeyElsewhere

\* Every request is answered; a person does as they please.
AccountFair ==
    /\ \A k \in Slots : WF_accountVars(ReadServed(k)) /\ WF_accountVars(SignInsArrive(k))
    /\ WF_accountVars(KeysArrive) /\ WF_accountVars(Authenticated)
    /\ WF_accountVars(KeyRegistered) /\ WF_accountVars(AddLands \/ AddFails)
    /\ WF_accountVars(DeleteServed) /\ WF_accountVars(DeleteLands \/ DeleteFails)
    /\ WF_accountVars(OthersRevoked) /\ WF_accountVars(SignedOut)

AccountSpec == AccountInit /\ [][AccountNext]_accountVars /\ AccountFair

-----------------------------------------------------------------------------
(* Properties.                                                               *)

\* Every variable has its type, and no dialog is gone while what it asked for is under way
\* (its close button and onOpenChange are refused while it is busy).
AccountTypeOK ==
    /\ keys \subseteq KeyIds /\ signIns \subseteq SignIns
    /\ keyRows = NoKeysYet \/ ToSet(keyRows) \subseteq KeyIds
    /\ signRows = Unread \/ ToSet(signRows) \subseteq SignIns
    /\ add.busy # "no" => add.open
    /\ del.busy # "no" => del.target # 0
    /\ out.busy # "no" => out.open

\* The page's own edits leave the passkeys as the next read would show them: the account's,
\* the newest first, each once (Account.tsx: the list is by id, descending).
KeysAreTheAccounts ==
    /\ ListedKeys /\ ~mixed /\ add.busy # "done" /\ del.busy # "done"
    => keyRows = Newest(keys)

\* Whoever was signed out when the others were leaves the list, or the list says that it
\* could not be read: the page does not end on the sign-ins it had before.
RevokedIsRead ==
    out.busy = "done" ~> \/ signError \/ out.failed
                         \/ reads["revoked"].on /\ out = Closed

\* What is asked for in a dialog comes to an end there.
DialogsEnd ==
    /\ add.busy # "no" ~> add.busy = "no"
    /\ del.busy # "no" ~> del.busy = "no"

\* A list that is not there is being read or says that it cannot be.
NoSilentSkeleton ==
    /\ keyRows = NoKeysYet => keysError \/ reads["keys"].on
    /\ signRows = Unread => signError \/ reads["signs"].on

-----------------------------------------------------------------------------
(* Not so.                                                                   *)

(* The account page: its keys are the account's, and a failed read is told. *)
AccountInv == AccountTypeOK /\ KeysAreTheAccounts /\ NoSilentSkeleton

-----------------------------------------------------------------------------
(* What the repository says, or a user would expect, and the code does not       *)
(* keep: TLC finds each of these violated (README, section 8).                   *)

\* No passkey is listed twice: one registered while the first read is under way is put in
\* front of nothing and the read, or the other way round, has it too.
KeyListedOnce == keyRows # NoKeysYet => IsInjective(keyRows)

\* A passkey that is refused because it is gone leaves the list.
GoneLeavesList == del.failed /\ del.target \notin keys => del.target \notin ToSet(RowsOrNone)

\* Once the others are signed out and the list was read again, they stay off it: an older
\* read that comes later puts them back.
RevokedStaysOff ==
    [][signRows # Unread /\ Others = {} /\ signIns = {"here"}
         => signRows' = signRows \/ ToSet(signRows') = {"here"}]_accountVars
=============================================================================
