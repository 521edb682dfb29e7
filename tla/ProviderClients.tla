--------------------------- MODULE ProviderClients ---------------------------
(***************************************************************************)
(* The HTTP clients of providers/: for each operation, what its function   *)
(* checks before it sends, which client sends it, how often, what it takes *)
(* for success, how it reads a body and what it looks for in the answer.   *)
(* ProviderCall gives these records their behaviour.                       *)
(***************************************************************************)
EXTENDS HttpTransport, FiniteSets

CONSTANT MaxPages   \* maxOpportunityPages

\* http.Client as it is, and with CheckRedirect returning ErrUseLastResponse
PlainClient(follows) ==
    [kind |-> "plain", attempts |-> 1, delay |-> 0, maxRetryAfter |-> 0,
     noRedirect |-> FALSE, follows |-> follows]

(***************************************************************************)
(* An operation:                                                           *)
(*   client, method; write: the request changes something at the provider; *)
(*   checks: the defects of the input it refuses without a request;        *)
(*   shortcut: it answers an empty input without a request;                *)
(*   parts: how many answers, one after the other, may make up the whole;  *)
(*     pages: the provider decides that, each answer but the last is a full*)
(*     page, and MaxPages is the most the operation asks for;              *)
(*   accepts: the statuses it takes for success;                           *)
(*   decode: "all" of the body is one JSON value, the "first" value is     *)
(*     taken, the body is only "read", or not even that ("none");          *)
(*   limit: a body over the limit is an error ("exact"), is cut off        *)
(*     ("truncate"), or there is no limit;                                 *)
(*   refuses: the kinds of well-formed answers it takes none of for its    *)
(*     answer; of the other kinds it takes some, depending on their fields;*)
(*   typed: the package declares an error type for statuses and makes it   *)
(*     from a "reply", from the error of the "transport", or declares none;*)
(*   record: the caller's hook runs before the request is sent;            *)
(*   paced: a rate limiter is waited for under the caller's context.       *)
(***************************************************************************)
Request(client, method, decode, limit, typed) ==
    [name |-> "", client |-> client, method |-> method, write |-> FALSE, checks |-> {},
     shortcut |-> FALSE, parts |-> {1}, pages |-> FALSE, accepts |-> {200, 204},
     decode |-> decode, limit |-> limit, refuses |-> {}, typed |-> typed,
     record |-> FALSE, paced |-> FALSE]

\* What a decoder makes of a successful body.
Decodes(op, body) ==
    \/ op.decode = "none"
    \/ op.decode = "read" /\ ReadsWhole(op.limit, body)
    \/ /\ op.decode \in {"all", "first"}
       /\ ReadsWhole(op.limit, body)
       /\ body # "malformed"
       /\ body = "trailing" => op.decode = "first"
       /\ body \notin op.refuses

\* Answers it may refuse: those, and well-formed ones that do not fit its type.
MayRefuse(op, body) ==
    \/ ~Decodes(op, body)
    \/ op.decode \in {"all", "first"} /\ body \in {"other", "embedded"}

-----------------------------------------------------------------------------
(* pkg/http_client used directly *)

GetJSON == [Request(BuildClient(2, 2 * Second), "GET", "first", "none", "transport")
              EXCEPT !.name = "http_client.GetJSON"]
\* With SetNoRedirect; the POST is sent again after a failure.
PostJSON == [Request([BuildClient(2, 2 * Second) EXCEPT !.noRedirect = TRUE], "POST", "first", "none", "transport")
               EXCEPT !.name = "http_client.PostJSON"]

-----------------------------------------------------------------------------
(* polymarket *)

PolymarketNew == [PlainClient(FALSE) EXCEPT !.kind = "polymarket", !.attempts = 2]
PolymarketDo(method) == Request(PolymarketNew, method, "all", "exact", "reply")
requireCredentials == {"credentials"}
requireSubmission == {"disabled"} \union requireCredentials

\* A page without data is an empty page, here and of the open orders.
PolymarketListMarkets ==
    [PolymarketDo("GET") EXCEPT !.name = "polymarket.ListMarkets", !.checks = {"cursor"}]
\* The market and the books of its two tokens
PolymarketGetMarket ==
    [PolymarketDo("GET") EXCEPT !.name = "polymarket.GetMarket", !.checks = {"condition"}, !.parts = {3},
                                !.refuses = {"other", "embedded"}]
PolymarketPostOrder ==
    [PolymarketDo("POST") EXCEPT !.name = "polymarket.PostOrder", !.write = TRUE,
                                 !.checks = requireSubmission \union {"order"}, !.refuses = {"other", "embedded"}]
PolymarketListOpenOrders ==
    [PolymarketDo("GET") EXCEPT !.name = "polymarket.ListOpenOrders",
                                !.checks = requireCredentials \union {"filter"}]
PolymarketGetOrder ==
    [PolymarketDo("GET") EXCEPT !.name = "polymarket.GetOrder",
                                !.checks = requireCredentials \union {"order"}, !.refuses = {"other", "embedded"}]
PolymarketUpdateBalanceAllowance ==
    [PolymarketDo("GET") EXCEPT !.name = "polymarket.UpdateBalanceAllowance", !.decode = "read",
                                !.checks = requireCredentials \union {"asset"}]
PolymarketCancelOrder ==
    [PolymarketDo("DELETE") EXCEPT !.name = "polymarket.CancelOrder", !.write = TRUE,
                                   !.checks = requireCredentials \union {"order"}, !.refuses = {"other", "embedded"}]
PolymarketRevokeCredentials ==
    [PolymarketDo("DELETE") EXCEPT !.name = "polymarket.RevokeCredentials", !.write = TRUE, !.decode = "read",
                                   !.checks = requireCredentials]

\* Fault: a timeout of the server counts as a refusal.
AnyClientError(status) == status \in 400..499

\* IsDefinitiveSubmissionRejection, of a typed status
IsDefinitiveSubmissionRejection(status) == status \in (400..499) \ {408}
isTransientStatus(status) == status = 429 \/ status >= 500

-----------------------------------------------------------------------------
(* hyperliquid *)

NewInfoClient == PlainClient(TRUE)
\* A report of an error is an object, which a list is not decoded from.
notAList == {"embedded"}
InfoPost == Request(NewInfoClient, "POST", "all", "exact", "reply")
HyperliquidClearinghouseState == [InfoPost EXCEPT !.name = "hyperliquid.ClearinghouseState"]
HyperliquidPerpMeta == [InfoPost EXCEPT !.name = "hyperliquid.PerpMeta"]
HyperliquidOrderStatus == [InfoPost EXCEPT !.name = "hyperliquid.OrderStatus"]
HyperliquidLedgerUpdatesPage ==
    [InfoPost EXCEPT !.name = "hyperliquid.NonFundingLedgerUpdatesPage", !.refuses = notAList]

validateL1ExplorerResponseType == {"embedded"}
HyperliquidUserDetails == [InfoPost EXCEPT !.name = "hyperliquid.UserDetails", !.refuses = validateL1ExplorerResponseType]
HyperliquidTxDetails == [InfoPost EXCEPT !.name = "hyperliquid.TxDetails", !.refuses = validateL1ExplorerResponseType \union {"other"}]
HyperliquidBlockDetails ==
    [InfoPost EXCEPT !.name = "hyperliquid.BlockDetails", !.refuses = validateL1ExplorerResponseType \union {"other"}]

NewExchangeClient == PlainClient(FALSE)
ExchangePost ==
    [Request(NewExchangeClient, "POST", "all", "exact", "reply")
       EXCEPT !.name = "hyperliquid.ExchangePost", !.write = TRUE, !.record = TRUE, !.checks = {"signature", "address"}]

-----------------------------------------------------------------------------
(* On-ramps: coinbase, transak, robinhood, rhinestone. Their sessions and    *)
(* identifiers are resources at the provider.                                *)

CoinbaseDoJSON(method) == Request(PlainClient(TRUE), method, "first", "truncate", "reply")
CoinbaseCreateSessionToken ==
    [CoinbaseDoJSON("POST") EXCEPT !.name = "coinbase.CreateSessionToken", !.write = TRUE,
                                   !.checks = {"address"}, !.refuses = {"other", "embedded"}]
CoinbaseGetBuyTransactions == [CoinbaseDoJSON("GET") EXCEPT !.name = "coinbase.GetBuyTransactions", !.checks = {"user"}]
CoinbaseGetBuyConfig == [CoinbaseDoJSON("GET") EXCEPT !.name = "coinbase.GetBuyConfig", !.refuses = {"other", "embedded"}]
CoinbaseGetBuyOptions ==
    [CoinbaseDoJSON("GET") EXCEPT !.name = "coinbase.GetBuyOptions", !.checks = {"country"}, !.refuses = {"other", "embedded"}]

TransakDoJSON(method) == Request(PlainClient(TRUE), method, "first", "truncate", "reply")
TransakRefreshToken ==
    [TransakDoJSON("POST") EXCEPT !.name = "transak.RefreshToken", !.write = TRUE, !.refuses = {"other", "embedded"}]
TransakCreateWidgetSession ==
    [TransakDoJSON("POST") EXCEPT !.name = "transak.CreateWidgetSession", !.write = TRUE, !.checks = {"token"},
                                  !.refuses = {"other", "embedded"}]
TransakGetOrders == [TransakDoJSON("GET") EXCEPT !.name = "transak.GetOrders", !.checks = {"token"}]
TransakGetFiatCurrencies ==
    [TransakDoJSON("GET") EXCEPT !.name = "transak.GetFiatCurrencies", !.refuses = {"other", "embedded"}]

RobinhoodDoJSON(method) == Request(PlainClient(TRUE), method, "first", "truncate", "reply")
RobinhoodCreateConnectID ==
    [RobinhoodDoJSON("POST") EXCEPT !.name = "robinhood.CreateConnectID", !.write = TRUE, !.checks = {"address"},
                                    !.refuses = {"other", "embedded"}]
RobinhoodGetOrder == [RobinhoodDoJSON("GET") EXCEPT !.name = "robinhood.GetOrder", !.checks = {"order"}]

RhinestoneNew == PlainClient(FALSE)
RhinestoneRead == [Request(RhinestoneNew, "GET", "all", "exact", "reply") EXCEPT !.accepts = {200}]
RhinestoneGetOnrampOptions == [RhinestoneRead EXCEPT !.name = "rhinestone.GetOnrampOptions", !.checks = {"kind", "country"}]
RhinestoneGetChains == [RhinestoneRead EXCEPT !.name = "rhinestone.GetChains"]

-----------------------------------------------------------------------------
(* slack: any success will do, its body is not read *)

SlackNew == PlainClient(FALSE)
SlackPostTo == [Request(SlackNew, "POST", "none", "none", "none") EXCEPT !.name = "slack.PostTo", !.write = TRUE]

-----------------------------------------------------------------------------
(* Market data over the retrying transport *)

DebankNew == BuildClient(0, 0)
DebankRequest == Request(DebankNew, "GET", "first", "none", "none")
DebankGetToken == [DebankRequest EXCEPT !.name = "debank.GetToken", !.checks = {"chain"}, !.refuses = {"other", "embedded"}]
DebankGetHistoryTokenPrice == [DebankRequest EXCEPT !.name = "debank.GetHistoryTokenPrice", !.checks = {"chain"}]
DebankGetTokenBalances == [DebankRequest EXCEPT !.name = "debank.GetTokenBalances", !.shortcut = TRUE, !.refuses = notAList]
\* Batches of at most maxTokenListByIDs tokens; no tokens, no batch
DebankGetTokens ==
    [DebankRequest EXCEPT !.name = "debank.GetTokens", !.checks = {"chain"}, !.parts = {1, 2}, !.shortcut = TRUE,
                          !.refuses = notAList]
DebankGetAccountCredits == [DebankRequest EXCEPT !.name = "debank.GetAccountCredits"]
DebankGetProtocolPortfolios == [DebankRequest EXCEPT !.name = "debank.GetProtocolPortfolios", !.refuses = notAList]

FinnhubNew == BuildClient(0, Second)
FinnhubGetBody ==
    [Request(FinnhubNew, "GET", "first", "truncate", "reply") EXCEPT !.refuses = {"embedded"}, !.paced = TRUE]
FinnhubGetCompanyProfile == [FinnhubGetBody EXCEPT !.name = "finnhub.GetCompanyProfile", !.checks = {"symbol"}]
FinnhubGetCompanyBasicFinancials ==
    [FinnhubGetBody EXCEPT !.name = "finnhub.GetCompanyBasicFinancials", !.checks = {"symbol"}]
\* The profile and the financials
FinnhubGetStockFundamentals ==
    [FinnhubGetBody EXCEPT !.name = "finnhub.GetStockFundamentals", !.checks = {"symbol"}, !.parts = {2}]

DefillamaNew == BuildClient(0, 2 * Second)
DefillamaGet == Request(DefillamaNew, "GET", "first", "none", "none")
DefillamaGetCoin ==
    [DefillamaGet EXCEPT !.name = "defillama.GetCoin", !.checks = {"chain"}, !.refuses = {"other", "embedded"}]
DefillamaGetHistoricalCoin ==
    [DefillamaGet EXCEPT !.name = "defillama.GetHistoricalCoin", !.checks = {"chain"}, !.refuses = {"other", "embedded"}]
DefillamaGetMultipleCoins == [DefillamaGet EXCEPT !.name = "defillama.GetMultipleCoins", !.shortcut = TRUE]

ZerionNew == BuildClient(0, 0)
ZerionGetWalletPositions ==
    [Request(ZerionNew, "GET", "first", "truncate", "none") EXCEPT !.name = "zerion.GetWalletPositions", !.shortcut = TRUE]

YahooNew == BuildClient(0, Second)
YahooGetBody == [Request(YahooNew, "GET", "first", "truncate", "transport") EXCEPT !.paced = TRUE]
YahooGetChart == [YahooGetBody EXCEPT !.name = "yahoo.GetChart", !.checks = {"symbol"}, !.refuses = {"embedded"}]
YahooGetStockDetail ==
    [YahooGetBody EXCEPT !.name = "yahoo.GetStockDetail", !.checks = {"symbol"}, !.refuses = {"other", "embedded"}]

SecNew == BuildClient(0, Second)
SecGetBody == [Request(SecNew, "GET", "first", "truncate", "reply") EXCEPT !.paced = TRUE]
SecGetCompanyTickers == [SecGetBody EXCEPT !.name = "sec.GetCompanyTickers"]
SecGetCompanyFacts == [SecGetBody EXCEPT !.name = "sec.GetCompanyFacts", !.checks = {"cik"}]
\* The ticker table, unless it is cached, and the facts
SecGetEquityFacts == [SecGetBody EXCEPT !.name = "sec.GetEquityFacts", !.checks = {"ticker"}, !.parts = {1, 2}]

FrankfurterNew == BuildClient(2, Second \div 2)
\* decodeRates refuses an object and an empty array, not one without the rows asked for.
FrankfurterGetBody ==
    [Request(FrankfurterNew, "GET", "all", "exact", "reply")
       EXCEPT !.name = "frankfurter.fetchMonth", !.paced = TRUE, !.refuses = notAList]

-----------------------------------------------------------------------------
(* Market data over a plain client: axiom, snapshotd *)

AxiomGetTokenPrice ==
    [Request(PlainClient(TRUE), "GET", "all", "truncate", "reply")
       EXCEPT !.name = "axiom.GetTokenPrice", !.checks = {"chain"}, !.refuses = {"other", "embedded"}]
SnapshotdGetJSON == Request(PlainClient(TRUE), "GET", "all", "exact", "reply")
SnapshotdGetPPS ==
    [SnapshotdGetJSON EXCEPT !.name = "snapshotd.GetPPS", !.checks = {"query"}, !.refuses = {"other", "embedded"}]
SnapshotdGetAllocation ==
    [SnapshotdGetJSON EXCEPT !.name = "snapshotd.GetAllocation", !.checks = {"query"}, !.refuses = {"other", "embedded"}]

-----------------------------------------------------------------------------
(* Swap aggregators *)

OneInchNew == BuildClient(0, 10 * Second)
OneInchGetJSON == Request(OneInchNew, "GET", "first", "none", "none")
OneInchGetQuote == [OneInchGetJSON EXCEPT !.name = "oneinch.GetQuote", !.checks = {"tokens", "amount"}]
OneInchGetSwap == [OneInchGetJSON EXCEPT !.name = "oneinch.GetSwap", !.checks = {"tokens", "amount", "address"}]

OpenOceanNew == BuildClient(0, 10 * Second)
OpenOceanGetSwap ==
    [Request(OpenOceanNew, "GET", "first", "none", "none")
       EXCEPT !.name = "openocean.GetSwap", !.checks = {"tokens"}, !.refuses = {"other", "embedded"}]

KyberswapNew == BuildClient(0, 10 * Second)
KyberswapDoJSON(method) == Request(KyberswapNew, method, "first", "none", "none")
KyberswapGetRoute ==
    [KyberswapDoJSON("GET") EXCEPT !.name = "kyberswap.GetRoute", !.checks = {"chain", "tokens"}, !.refuses = {"other", "embedded"}]
KyberswapBuildRoute ==
    [KyberswapDoJSON("POST") EXCEPT !.name = "kyberswap.BuildRoute", !.checks = {"chain", "slippage"},
                                    !.refuses = {"other", "embedded"}]

-----------------------------------------------------------------------------
(* merkl *)

MerklNew == BuildClient(4, 2 * Second)
MerklGetJSON == [Request(MerklNew, "GET", "all", "exact", "reply") EXCEPT !.paced = TRUE]
MerklGetList == [MerklGetJSON EXCEPT !.refuses = notAList]
MerklListOpportunities == [MerklGetList EXCEPT !.name = "merkl.ListOpportunities", !.checks = {"items", "page"}]
\* A page that is not full is the last one. With more than MaxPages pages, how many is the same.
MerklListAllOpportunities ==
    [MerklGetList EXCEPT !.name = "merkl.ListAllOpportunities", !.checks = {"items", "page"}, !.pages = TRUE,
                         !.parts = 1..(MaxPages + 1)]
MerklCountOpportunities == [MerklGetJSON EXCEPT !.name = "merkl.CountOpportunities", !.refuses = {"other", "embedded"}]
MerklGetUserRewardsForChains ==
    [MerklGetList EXCEPT !.name = "merkl.GetUserRewardsForChains", !.checks = {"user", "chain"}]
MerklGetLiveRoots == [MerklGetJSON EXCEPT !.name = "merkl.GetLiveRoots"]
MerklRewardTokens == [MerklGetList EXCEPT !.name = "merkl.RewardTokens", !.checks = {"chain"}]
MerklListCampaigns == [MerklGetList EXCEPT !.name = "merkl.ListCampaigns"]
MerklListHistoricalRoots == [MerklGetList EXCEPT !.name = "merkl.ListHistoricalRoots", !.checks = {"chain", "range", "page"}]
MerklGetClaimHistory == [MerklGetList EXCEPT !.name = "merkl.GetClaimHistory", !.checks = {"recipient"}]
MerklListClaims == [MerklGetList EXCEPT !.name = "merkl.ListClaims", !.checks = {"range", "chain"}]
MerklGetHistoricalTree == [MerklGetJSON EXCEPT !.name = "merkl.GetHistoricalTree", !.checks = {"chain", "recipient", "time"}]
MerklGetPriceHistory == [MerklGetList EXCEPT !.name = "merkl.GetPriceHistory", !.checks = {"chain", "token", "range"}]
\* A POST that stores nothing, and so may be retried
MerklEncodeCampaign ==
    [MerklGetJSON EXCEPT !.name = "merkl.EncodeCampaign", !.method = "POST", !.typed = "none", !.refuses = {"other", "embedded"}]

-----------------------------------------------------------------------------
Writes == {PolymarketPostOrder, PolymarketCancelOrder, PolymarketRevokeCredentials, ExchangePost, CoinbaseCreateSessionToken, TransakRefreshToken,
           TransakCreateWidgetSession, RobinhoodCreateConnectID, SlackPostTo}

SingleReads == {PolymarketListMarkets, PolymarketListOpenOrders, PolymarketGetOrder, PolymarketUpdateBalanceAllowance,
    HyperliquidClearinghouseState, HyperliquidPerpMeta, HyperliquidOrderStatus, HyperliquidLedgerUpdatesPage,
    HyperliquidUserDetails, HyperliquidTxDetails, HyperliquidBlockDetails,
    CoinbaseGetBuyTransactions, CoinbaseGetBuyConfig, CoinbaseGetBuyOptions, TransakGetOrders, TransakGetFiatCurrencies,
    RobinhoodGetOrder, RhinestoneGetOnrampOptions, RhinestoneGetChains, DebankGetToken, DebankGetHistoryTokenPrice,
    DebankGetTokenBalances, DebankGetAccountCredits, DebankGetProtocolPortfolios, FinnhubGetCompanyProfile,
    FinnhubGetCompanyBasicFinancials, DefillamaGetCoin, DefillamaGetHistoricalCoin, DefillamaGetMultipleCoins,
    ZerionGetWalletPositions, YahooGetChart, YahooGetStockDetail, SecGetCompanyTickers, SecGetCompanyFacts,
    AxiomGetTokenPrice, SnapshotdGetPPS, SnapshotdGetAllocation, OneInchGetQuote, OneInchGetSwap, OpenOceanGetSwap,
    KyberswapGetRoute, KyberswapBuildRoute}

\* Reads of several requests or several attempts
LongReads == {GetJSON, PostJSON, PolymarketGetMarket, DebankGetTokens, FinnhubGetStockFundamentals, SecGetEquityFacts,
    FrankfurterGetBody, MerklListOpportunities, MerklListAllOpportunities, MerklCountOpportunities,
    MerklGetUserRewardsForChains, MerklListClaims, MerklGetLiveRoots, MerklRewardTokens, MerklListCampaigns,
    MerklListHistoricalRoots, MerklGetClaimHistory, MerklGetHistoricalTree, MerklGetPriceHistory, MerklEncodeCampaign}

AllOperations == Writes \union SingleReads \union LongReads
==============================================================================
