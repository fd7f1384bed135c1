--------------------------- MODULE ModerationAbs ---------------------------
(* What moderation promises: every user is free, banned or kicked until some  *)
(* time, each call changes that at once, and nothing else ever does: neither  *)
(* a crash, nor a restart, nor the clean-up of expired kicks.                 *)
EXTENDS Integers

CONSTANTS Users, KickTime

VARIABLES status, now

Free == [kind |-> "free", until |-> 0]
Banned == [kind |-> "banned", until |-> 0]
Kicked(t) == [kind |-> "kicked", until |-> t]

IsBanned(u) == status[u] = Banned \/ (status[u].kind = "kicked" /\ now < status[u].until)

Ban(u) == status' = [status EXCEPT ![u] = Banned] /\ UNCHANGED now

Kick(u) ==
    /\ status[u] # Banned
    /\ status' = [status EXCEPT ![u] = Kicked(now + KickTime)] /\ UNCHANGED now

Unban(u) ==
    /\ status[u] = Banned
    /\ status' = [status EXCEPT ![u] = Free] /\ UNCHANGED now

Allow(u) ==
    /\ status[u].kind = "kicked"
    /\ status' = [status EXCEPT ![u] = Free] /\ UNCHANGED now

Tick == now' = now + 1 /\ UNCHANGED status

Next == Tick \/ \E u \in Users : Ban(u) \/ Kick(u) \/ Unban(u) \/ Allow(u)

Spec == [][Next]_<<status, now>>
============================================================================
