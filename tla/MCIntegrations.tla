---------------------------- MODULE MCIntegrations ----------------------------
(* Small instances of the work the assistant does at other services, in    *)
(* one model.  A behaviour runs the one part its first state names and     *)
(* leaves the others as they begin: their sum, not their product, is       *)
(* checked.  The external actions are instances of the module that proves  *)
(* them, so that ServiceProofs may cite what it proves of each.            *)
EXTENDS Naturals, FiniteSets, Sequences, TLC

CONSTANTS None,
          Task,                                 \* the one task of the user
          MaxLinks, MaxTries, BitrixWrites,     \* Bitrix24
          MaxAccounts,                          \* linked accounts
          Mailboxes, MaxMessages, Limit          \* accounts whose mail is read

VARIABLES part,
          cTask, cAttempts, cAt, cDone, cExecutions, cActions, cPendings, cLapsed,
          cLapsing, cMessage, cAsked, cAccount, cGrant, cCall, cReached,
          cSent, cCrashes,
          sTask, sAttempts, sAt, sDone, sExecutions, sActions, sPendings, sLapsed,
          sLapsing, sMessage, sAsked, sAccount, sGrant, sCall, sReached,
          sSent, sCrashes,
          bRow, bRecent, bTries, bValidating, bClosed, bLate, bSnap, bOff, bWrite,
          bCalling, bReached, bSent, bCrashes,
          eStatus, eDefault, eRemote, eRequest, eOver, ePage, eSnap, eTold, ePrimary,
          inbox, answer, seen, merged

confirmed == <<cTask, cAttempts, cAt, cDone, cExecutions, cActions, cPendings, cLapsed,
               cLapsing, cMessage, cAsked, cAccount, cGrant, cCall,
               cReached, cSent, cCrashes>>
scheduled == <<sTask, sAttempts, sAt, sDone, sExecutions, sActions, sPendings, sLapsed,
               sLapsing, sMessage, sAsked, sAccount, sGrant, sCall,
               sReached, sSent, sCrashes>>
bitrix == <<bRow, bRecent, bTries, bValidating, bClosed, bLate, bSnap, bOff, bWrite,
            bCalling, bReached, bSent, bCrashes>>
linked == <<eStatus, eDefault, eRemote, eRequest, eOver, ePage, eSnap, eTold, ePrimary>>
reads == <<inbox, answer, seen, merged>>
vars == <<part, confirmed, scheduled, bitrix, linked, reads>>

(* Two writes that a user confirms, of a task that two workers may come to *)
(* hold: because the lease of the one ended while it worked, or because it *)
(* crashed.                                                                *)
Overrunning == INSTANCE ExternalActionsProofs WITH
    task <- cTask, attempts <- cAttempts, at <- cAt, done <- cDone,
    executions <- cExecutions, actions <- cActions, pendings <- cPendings,
    lapsed <- cLapsed, lapsing <- cLapsing, message <- cMessage,
    asked <- cAsked, account <- cAccount, grant <- cGrant, call <- cCall,
    reached <- cReached, sent <- cSent, crashes <- cCrashes,
    Workers <- {"w1", "w2"}, Turn <- "turn", CallIds <- {"c"}, Reads <- {}, Writes <- {"x", "y"},
    Scheduled <- FALSE, MaxWrites <- 0, MaxAttempts <- 2, Overrun <- TRUE, MaxCrashes <- 0,
    MaxSent <- 2
Crashing == INSTANCE ExternalActionsProofs WITH
    task <- cTask, attempts <- cAttempts, at <- cAt, done <- cDone,
    executions <- cExecutions, actions <- cActions, pendings <- cPendings,
    lapsed <- cLapsed, lapsing <- cLapsing, message <- cMessage,
    asked <- cAsked, account <- cAccount, grant <- cGrant, call <- cCall,
    reached <- cReached, sent <- cSent, crashes <- cCrashes,
    Workers <- {"w1", "w2"}, Turn <- "turn", CallIds <- {"c"}, Reads <- {}, Writes <- {"x", "y"},
    Scheduled <- FALSE, MaxWrites <- 0, MaxAttempts <- 2, Overrun <- FALSE, MaxCrashes <- 1,
    MaxSent <- 1

(* A run of a routine whose grant allows for two writes: two calls of each *)
(* of two.                                                                 *)
Running == INSTANCE ExternalActionsProofs WITH
    task <- sTask, attempts <- sAttempts, at <- sAt, done <- sDone,
    executions <- sExecutions, actions <- sActions, pendings <- sPendings,
    lapsed <- sLapsed, lapsing <- sLapsing, message <- sMessage,
    asked <- sAsked, account <- sAccount, grant <- sGrant, call <- sCall,
    reached <- sReached, sent <- sSent, crashes <- sCrashes,
    Workers <- {"w"}, Turn <- "turn", CallIds <- {"c1", "c2"}, Reads <- {}, Writes <- {"x", "y"},
    Scheduled <- TRUE, MaxWrites <- 2, MaxAttempts <- 2, Overrun <- FALSE, MaxCrashes <- 1,
    MaxSent <- 2

(* Links and writes of one task, whose transactions nothing interrupts.    *)
Bitrix == INSTANCE BitrixConnections WITH
    row <- bRow, recent <- bRecent, tries <- bTries,
    validating <- bValidating, closed <- bClosed, late <- bLate,
    snap <- bSnap, off <- bOff, write <- bWrite, calling <- bCalling,
    reached <- bReached, sent <- bSent, crashes <- bCrashes,
    Tasks <- {Task}, Writes <- BitrixWrites, Overlap <- FALSE, MaxCrashes <- 0

Linked == INSTANCE ExternalAccounts WITH
    status <- eStatus, default <- eDefault, remote <- eRemote,
    request <- eRequest, over <- eOver, page <- ePage, snap <- eSnap,
    told <- eTold, primary <- ePrimary, Tasks <- {Task}

(* Messages in several accounts, in answers that are not too large.        *)
Reading == INSTANCE AccountReads WITH Accounts <- Mailboxes, Kept <- Limit, Large <- FALSE

ASSUME IntegrationAssumptions ==
    /\ Overrunning!ActionsAssumption /\ Crashing!ActionsAssumption /\ Running!ActionsAssumption
    /\ Bitrix!BitrixAssumption /\ Linked!AccountsAssumption /\ Reading!ReadsAssumption

-----------------------------------------------------------------------------
Init ==
    /\ part \in {"overrunning", "crashing", "running", "bitrix", "linked", "reading"}
    /\ Overrunning!Init /\ Running!Init /\ Bitrix!Init /\ Linked!Init /\ Reading!Init

Confirmed == /\ \/ part = "overrunning" /\ Overrunning!Next
                \/ part = "crashing" /\ Crashing!Next
             /\ UNCHANGED <<part, scheduled, bitrix, linked, reads>>
Scheduled ==
    part = "running" /\ Running!Next /\ UNCHANGED <<part, confirmed, bitrix, linked, reads>>
Bitrix24 ==
    part = "bitrix" /\ Bitrix!Next /\ UNCHANGED <<part, confirmed, scheduled, linked, reads>>
Linking ==
    part = "linked" /\ Linked!Next /\ UNCHANGED <<part, confirmed, scheduled, bitrix, reads>>
Merging ==
    part = "reading" /\ Reading!Next /\ UNCHANGED <<part, confirmed, scheduled, bitrix, linked>>

Next == Confirmed \/ Scheduled \/ Bitrix24 \/ Linking \/ Merging

Spec == Init /\ [][Next]_vars

-----------------------------------------------------------------------------
(* Properties.                                                             *)

TypeOK ==
    CASE part \in {"overrunning", "crashing"} -> Overrunning!TypeOK
      [] part = "running" -> Running!TypeOK
      [] part = "bitrix" -> Bitrix!TypeOK
      [] part = "linked" -> Linked!TypeOK
      [] part = "reading" -> Reading!TypeOK

(* Whatever the model asks, repeats or is answered from the records, with  *)
(* a crash or with two workers at it: outside a routine nothing is written *)
(* without the user's confirmation of that very call, and the run of one   *)
(* does not record more writes than its grant allows for.                  *)
WritesAreAuthorised ==
    /\ part \in {"overrunning", "crashing"} => Overrunning!WritesAreConfirmed
    /\ part = "running" => Running!WithinLimit

(* A confirmed write is made once: however often it is confirmed, and even *)
(* when the answer of Bitrix24 was lost; what was made is recorded as made *)
(* or as unknown.                                                          *)
WrittenOnce ==
    /\ part = "overrunning" => Overrunning!ConsumedOnce
    /\ part = "bitrix" => Bitrix!WriteOnce /\ Bitrix!WrittenIsRecorded

(* What is over writes no more: a pending action that was consumed,        *)
(* cancelled or has expired, and the write that a run of a routine has     *)
(* made and recorded, in a later step or in a later attempt of the task,   *)
(* unless an execution of it that failed may hide the record.              *)
DoneNotRepeated == Overrunning!NothingAfterClose /\ Running!KnownNotRepeated

(* What is connected is what the user connected.  A token of Bitrix24 is   *)
(* held by a connection that is active or waits to be confirmed, whatever  *)
(* was asked, given on the page, cancelled or refused; the account that    *)
(* was made primary is the one used as long as it is connected, whatever   *)
(* is linked or lost meanwhile.                                            *)
ConnectionsHold ==
    /\ part = "bitrix" => Bitrix!CredentialHeld
    /\ part = "linked" => Linked!PrimaryIsUsed

(* An account that was found lost does not come back, not even through a   *)
(* page that was opened before; and no check takes out of use one that is  *)
(* connected.                                                              *)
LostStaysLost == Linked!LostStaysLost /\ Linked!CheckKeepsConnected

(* The merged list is what one account with the messages of all that       *)
(* answered would have returned, and a count that is called exact counts   *)
(* every one of them.                                                      *)
NewestOfAll == part = "reading" => Reading!NewestOfAll /\ Reading!ExactIsAll
=============================================================================
