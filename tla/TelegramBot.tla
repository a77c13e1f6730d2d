---------------------------- MODULE TelegramBot ----------------------------
(***************************************************************************)
(* Linking a user's telegram chat: the token that api/preferences.routes.ts *)
(* issues, and the worker of channels/telegram-bot.ts that polls every     *)
(* tenant's bot for /start messages.  The timer does not wait for a poll   *)
(* to end: polls overlap, and share the offsets they keep in memory.       *)
(* Telegram is outside src/: getUpdates hands out the updates from the     *)
(* offset on, and forgets those before it.                                 *)
(***************************************************************************)
EXTENDS TenantAdmin, Sequences, SequencesExt

CONSTANTS
    Users, TenantOf,   \* TenantOf[u]: the tenant of user u
    Chats, NoChat,
    MaxTokens,         \* link tokens issued in a run
    Links,             \* who asks for which token, and which chat follows its link
    Puts,              \* the chats that PUTs bring: pairs of user and chat
    MaxUpdates,        \* no more messages come once a bot has got so many
    Polls, NoUpdate

ASSUME TelegramAssumption ==
    /\ TenantOf \in [Users -> Tenants]
    /\ NoChat \notin Chats
    /\ {MaxTokens, MaxUpdates} \subseteq Nat
    /\ Links \subseteq [token : 1 .. MaxTokens, user : Users, chat : Chats]
    /\ Puts \subseteq Users \X Chats

VARIABLES
    issued,     \* the tokens so far: whose, and for which bot's link
    linkToken,  \* telegram_link_token, 0 for null
    chatId,     \* telegram_chat_id
    inbox,      \* inbox[b]: the updates bot b has ever got, by update_id
    forgotten,  \* forgotten[b]: Telegram holds the updates after this one
    offset,     \* botStates: by tenant, whatever bot it has
    bpc,        \* where each poll is
    list,       \* the tenants a poll has yet to come to, with their bots
    batch,      \* the updates it is going through
    lost,       \* tokens whose update an error or a crash has lost
    wiped,      \* tokens cleared by the UPDATE for an older one
    rebot,      \* tenants whose bot has been replaced
    put         \* the chats that came with a PUT of the preferences, and whose

botVars == <<issued, linkToken, chatId, inbox, forgotten, offset, bpc, list,
             batch, lost, wiped, rebot, put>>

Tokens == 1 .. MaxTokens

IssueType == [user : Users, bot : Bots]

UpdateType == [token : Tokens, chat : Chats]

BatchType == [tenant : Tenants, bot : Bots, next : 1 .. MaxUpdates + 1,
              last : 1 .. MaxUpdates, user : Users \union {NoUpdate}]

BotTypeOK ==
    /\ issued \in BoundedSeq(IssueType, MaxTokens)
    /\ linkToken \in [Users -> 0 .. MaxTokens]
    /\ chatId \in [Users -> Chats \union {NoChat}]
    /\ inbox \in [Bots -> BoundedSeq(UpdateType, MaxUpdates)]
    /\ forgotten \in [Bots -> 0 .. MaxUpdates]
    /\ offset \in [Tenants -> 0 .. MaxUpdates + 1]
    /\ bpc \in [Polls -> {"idle", "fetch", "batch", "link"}]
    /\ list \in [Polls -> SUBSET (Tenants \X Bots)]
    /\ batch \in [Polls -> BatchType \union {NoUpdate}]
    /\ {lost, wiped} \subseteq SUBSET Tokens
    /\ rebot \subseteq Tenants
    /\ put \subseteq Puts

BotInit ==
    /\ issued = <<>>
    /\ linkToken = [u \in Users |-> 0]
    /\ chatId = [u \in Users |-> NoChat]
    /\ inbox = [b \in Bots |-> <<>>]
    /\ forgotten = [b \in Bots |-> 0]
    /\ offset = [t \in Tenants |-> 0]
    /\ bpc = [p \in Polls |-> "idle"]
    /\ list = [p \in Polls |-> {}]
    /\ batch = [p \in Polls |-> NoUpdate]
    /\ lost = {}
    /\ wiped = {}
    /\ rebot = {}
    /\ put = {}

-----------------------------------------------------------------------------
Bot(t) == tenants[t].config.bot

(* POST .../telegram/link: a new token takes the place of the one before.  *)
RequestLink(u) ==
    LET t == TenantOf[u]
    IN  /\ Enabled(t) /\ Bot(t) # NoBot
        /\ Len(issued) < MaxTokens
        /\ \E l \in Links : l.token = Len(issued) + 1 /\ l.user = u
        /\ issued' = Append(issued, [user |-> u, bot |-> Bot(t)])
        /\ linkToken' = [linkToken EXCEPT ![u] = Len(issued) + 1]
        /\ UNCHANGED <<tenantVars, faults, chatId, inbox, forgotten, offset, bpc,
                       list, batch, lost, wiped, rebot, put>>

(* PUT /api/preferences/:userId writes the chat it is given, and leaves    *)
(* the token.                                                              *)
PutChat(u, chat) ==
    /\ <<u, chat>> \in Puts
    /\ Edit
    /\ Enabled(TenantOf[u])
    /\ chatId' = [chatId EXCEPT ![u] = chat]
    /\ put' = put \union {<<u, chat>>}
    /\ UNCHANGED <<tenants, patch, crossed, faults, issued, linkToken, inbox, forgotten,
                   offset, bpc, list, batch, lost, wiped, rebot>>

(* Somebody follows the link.                                              *)
PressStart(k, chat) ==
    /\ k \in DOMAIN issued
    /\ [token |-> k, user |-> issued[k].user, chat |-> chat] \in Links
    /\ \A b \in Bots : Len(inbox[b]) < MaxUpdates
    /\ inbox' = [inbox EXCEPT ![issued[k].bot] = Append(@, [token |-> k, chat |-> chat])]
    /\ UNCHANGED <<tenantVars, faults, issued, linkToken, chatId, forgotten, offset,
                   bpc, list, batch, lost, wiped, rebot, put>>

-----------------------------------------------------------------------------
(* The timer fires; the enabled tenants with a bot, as they are now.       *)
ListTenants(p) ==
    /\ bpc[p] = "idle"
    /\ list' = [list EXCEPT ![p] =
          {<<t, Bot(t)>> : t \in {t \in Tenants : Enabled(t) /\ Bot(t) # NoBot}}]
    /\ bpc' = [bpc EXCEPT ![p] = IF list'[p] = {} THEN "idle" ELSE "fetch"]
    /\ UNCHANGED <<tenantVars, faults, issued, linkToken, chatId, inbox, forgotten,
                   offset, batch, lost, wiped, rebot, put>>

(* Done with a tenant: the next one, or the poll is over.                  *)
NextTenant(p, rest) ==
    /\ list' = [list EXCEPT ![p] = rest]
    /\ batch' = [batch EXCEPT ![p] = NoUpdate]
    /\ bpc' = [bpc EXCEPT ![p] = IF rest = {} THEN "idle" ELSE "fetch"]

Larger(a, b) == IF a < b THEN b ELSE a

(* getUpdates with the tenant's offset and the bot's token.                *)
GetUpdates(p) ==
    /\ bpc[p] = "fetch"
    /\ \E tb \in list[p] :
          LET t == tb[1]  b == tb[2]
              rest == list[p] \ {tb}
              read == Larger(offset[t], 1) - 1
          IN  /\ forgotten' = [forgotten EXCEPT ![b] =
                    Larger(@, IF read < Len(inbox[b]) THEN read ELSE Len(inbox[b]))]
              /\ LET first == Larger(offset[t], forgotten'[b] + 1)
                 IN  \/ first > Len(inbox[b]) /\ NextTenant(p, rest)
                     \/ /\ first <= Len(inbox[b])
                        /\ list' = [list EXCEPT ![p] = rest]
                        /\ batch' = [batch EXCEPT ![p] =
                              [tenant |-> t, bot |-> b, next |-> first,
                               last |-> Len(inbox[b]), user |-> NoUpdate]]
                        /\ bpc' = [bpc EXCEPT ![p] = "batch"]
    /\ UNCHANGED <<tenantVars, faults, issued, linkToken, chatId, inbox, offset,
                   lost, wiped, rebot, put>>

Update(p) == inbox[batch[p].bot][batch[p].next]

NextUpdate(p) ==
    IF batch[p].next = batch[p].last THEN NextTenant(p, list[p])
    ELSE /\ batch' = [batch EXCEPT ![p].next = @ + 1, ![p].user = NoUpdate]
         /\ bpc' = [bpc EXCEPT ![p] = "batch"]
         /\ UNCHANGED list

(* Mutant of After: the update that follows is passed over.                 *)
AfterNext(id) == IF id < MaxUpdates THEN id + 2 ELSE id + 1

(* Mutant of After: an id is always left out, be it past the last one.      *)
AfterGap(id) == id + 2

After(id) == id + 1

Moved(p) == [offset EXCEPT ![batch[p].tenant] = After(batch[p].next)]

(* Mutant of Matches: any user of the tenant who waits for a link.          *)
MatchesAnyToken(t, k) == {u \in Users : TenantOf[u] = t /\ linkToken[u] # 0}

Matches(t, k) == {u \in Users : TenantOf[u] = t /\ linkToken[u] = k}

(* The offset moves past the update before anything is done about it.      *)
TakeUpdate(p) ==
    /\ bpc[p] = "batch"
    /\ offset' = Moved(p)
    /\ LET found == Matches(batch[p].tenant, Update(p).token)
       IN  \/ found = {} /\ NextUpdate(p)
           \/ \E u \in found :
                 /\ batch' = [batch EXCEPT ![p].user = u]
                 /\ bpc' = [bpc EXCEPT ![p] = "link"]
                 /\ UNCHANGED list
    /\ UNCHANGED <<tenantVars, faults, issued, linkToken, chatId, inbox, forgotten,
                   lost, wiped, rebot, put>>

(* The UPDATE is by the row's id: it clears whatever token is there.       *)
LinkChat(p) ==
    LET u == batch[p].user
    IN  /\ bpc[p] = "link"
        /\ chatId' = [chatId EXCEPT ![u] = Update(p).chat]
        /\ linkToken' = [linkToken EXCEPT ![u] = 0]
        /\ wiped' = wiped \union ({linkToken[u]} \ {0, Update(p).token})
        /\ NextUpdate(p)
        /\ UNCHANGED <<tenantVars, faults, issued, inbox, forgotten, offset, lost, rebot, put>>

(* The request or a statement fails: the rest of this tenant's updates is  *)
(* left for another poll, the one at hand is not.                          *)
PollThrow(p) ==
    /\ bpc[p] # "idle"
    /\ faults < MaxFaults
    /\ faults' = faults + 1
    /\ \/ /\ bpc[p] = "fetch"
          /\ \E tb \in list[p] : NextTenant(p, list[p] \ {tb})
          /\ UNCHANGED <<offset, lost>>
       \/ /\ bpc[p] # "fetch"
          /\ offset' = IF bpc[p] = "batch" THEN Moved(p) ELSE offset
          /\ lost' = lost \union {Update(p).token}
          /\ NextTenant(p, list[p])
    /\ UNCHANGED <<tenantVars, issued, linkToken, chatId, inbox, forgotten, wiped, rebot, put>>

PollStep(p) == GetUpdates(p) \/ TakeUpdate(p) \/ LinkChat(p)

(* The server's death: the offsets are gone, Telegram's are not.           *)
KillPolls ==
    /\ offset' = [t \in Tenants |-> 0]
    /\ bpc' = [p \in Polls |-> "idle"]
    /\ list' = [p \in Polls |-> {}]
    /\ batch' = [p \in Polls |-> NoUpdate]
    /\ lost' = lost \union {Update(p).token : p \in {p \in Polls : bpc[p] = "link"}}
    /\ UNCHANGED <<issued, linkToken, chatId, inbox, forgotten, wiped, rebot, put>>

-----------------------------------------------------------------------------
(* A user's chat has presented a token issued to that very user, or came   *)
(* with a PUT of that user's preferences, the two ways the column is       *)
(* written: whatever polls overlap, and whatever tokens were in between,   *)
(* nobody gets the chat of another.                                        *)
ChatPresentedItsToken ==
    \A u \in Users :
        chatId[u] # NoChat =>
            \/ <<u, chatId[u]>> \in put
            \/ \E b \in Bots : \E i \in DOMAIN inbox[b] :
                  /\ inbox[b][i].chat = chatId[u]
                  /\ issued[inbox[b][i].token].user = u

Presents(k, chat) ==
    \E i \in DOMAIN inbox[issued[k].bot] :
        inbox[issued[k].bot][i] = [token |-> k, chat |-> chat]

Waits(k) ==
    /\ k \in DOMAIN issued
    /\ linkToken[issued[k].user] = k
    /\ \E chat \in Chats : Presents(k, chat)

Superseded(k, u) ==
    \/ linkToken[u] > k
    \/ k \in lost \union wiped
    \/ TenantOf[u] \in rebot
    \/ ~Enabled(TenantOf[u])

Linked(k) ==
    /\ k \in DOMAIN issued
    /\ LET u == issued[k].user
       IN  \/ linkToken[u] # k /\ Presents(k, chatId[u])
           \/ Superseded(k, u)

(* A token presented to the bot it was issued for, while it is the user's, *)
(* is taken back and links a chat that presented it, unless the user asks  *)
(* for another token, the tenant is disabled, deleted or given another     *)
(* bot, a failure lost the update, or the UPDATE for an older token of the *)
(* user cleared this one.                                                  *)
PresentedTokenLinks == \A k \in Tokens : Waits(k) ~> Linked(k)
=============================================================================
