---------------------------- MODULE TokenService ----------------------------
(***************************************************************************)
(* JwtService and the token operations of AuthService.  A token is a       *)
(* signed record that nobody stores: tokens lists those ever signed, and a *)
(* token is named by its place in the list.  The access and the refresh    *)
(* token have secrets of their own, so neither verifies as the other.      *)
(***************************************************************************)
EXTENDS Naturals, Sequences

CONSTANTS User,
          AccessTtl,   \* jwtExpire
          RefreshTtl,  \* jwtRefreshExpire
          MaxTokens,   \* bound: tokens signed
          MaxTime      \* bound: when the clock stops

ASSUME TtlAssumption == AccessTtl \in Nat /\ RefreshTtl \in Nat

ASSUME BoundAssumption == MaxTokens \in Nat /\ MaxTime \in Nat

VARIABLES now, tokens

Tokens == 1..Len(tokens)

Token == [kind : {"access", "refresh"}, user : User, exp : Nat]

TokensTypeOK ==
    /\ now \in 0..MaxTime
    /\ tokens \in Seq(Token)
    /\ Len(tokens) <= MaxTokens

TokensInit == now = 0 /\ tokens = <<>>

\* generateTokenPair
TokenPair(u) ==
    << [kind |-> "access", user |-> u, exp |-> now + AccessTtl],
       [kind |-> "refresh", user |-> u, exp |-> now + RefreshTtl] >>

Issue(u) ==
    /\ Len(tokens) + 2 <= MaxTokens
    /\ tokens' = tokens \o TokenPair(u)
    /\ UNCHANGED now

\* jwt.verify with the secret of a kind of token: nothing but its signature and
\* its expiry is looked at.
Verifies(t, kind) == tokens[t].kind = kind /\ now < tokens[t].exp

\* login: the user is found and the password compares.
Login(u) == Issue(u)

\* refreshToken: a new pair for the user of the token, which stays usable.
RefreshToken(t) ==
    /\ t \in Tokens
    /\ Verifies(t, "refresh")
    /\ Issue(tokens[t].user)

\* validateToken: whatever goes wrong makes the answer valid: false.
ValidateToken(t) == Verifies(t, "access")

Sign == (\E u \in User : Login(u)) \/ \E t \in Tokens : RefreshToken(t)

=============================================================================
