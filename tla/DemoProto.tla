----------------------------- MODULE DemoProto ------------------------------
(***************************************************************************)
(* The messages and services of the shop as the frontend's generated       *)
(* module lists them (src/src/frontend/protos/demo.ts).  Each message of   *)
(* that module is the same six functions (createBase, encode, decode,      *)
(* fromJSON, toJSON, fromPartial) unrolled over its fields: here a message *)
(* is the list of its fields, in the order in which they are written, and  *)
(* Codec.tla has the functions.                                            *)
(***************************************************************************)
EXTENDS Naturals, Sequences

Field(no, name, type, repeated) ==
  [no |-> no, name |-> name, type |-> type, repeated |-> repeated]
One(no, name, type) == Field(no, name, type, FALSE)
Many(no, name, type) == Field(no, name, type, TRUE)

CartItem == <<One(1, "productId", "string"), One(2, "quantity", "int32")>>
AddItemRequest == <<One(1, "userId", "string"), One(2, "item", "CartItem")>>
EmptyCartRequest == <<One(1, "userId", "string")>>
GetCartRequest == <<One(1, "userId", "string")>>
Cart == <<One(1, "userId", "string"), Many(2, "items", "CartItem")>>
Empty == <<>>
ListRecommendationsRequest ==
  <<One(1, "userId", "string"), Many(2, "productIds", "string")>>
ListRecommendationsResponse == <<Many(1, "productIds", "string")>>
Product ==
  <<One(1, "id", "string"), One(2, "name", "string"),
    One(3, "description", "string"), One(4, "picture", "string"),
    One(5, "priceUsd", "Money"), Many(6, "categories", "string")>>
ListProductsResponse == <<Many(1, "products", "Product")>>
GetProductRequest == <<One(1, "id", "string")>>
SearchProductsRequest == <<One(1, "query", "string")>>
SearchProductsResponse == <<Many(1, "results", "Product")>>
ProductReview ==
  <<One(1, "username", "string"), One(2, "description", "string"),
    One(3, "score", "string")>>
GetProductReviewsRequest == <<One(1, "productId", "string")>>
GetProductReviewsResponse == <<Many(1, "productReviews", "ProductReview")>>
GetAverageProductReviewScoreRequest == <<One(1, "productId", "string")>>
GetAverageProductReviewScoreResponse == <<One(1, "averageScore", "string")>>
AskProductAIAssistantRequest ==
  <<One(1, "productId", "string"), One(2, "question", "string")>>
AskProductAIAssistantResponse == <<One(1, "response", "string")>>
GetQuoteRequest ==
  <<One(1, "address", "Address"), Many(2, "items", "CartItem")>>
GetQuoteResponse == <<One(1, "costUsd", "Money")>>
ShipOrderRequest ==
  <<One(1, "address", "Address"), Many(2, "items", "CartItem")>>
ShipOrderResponse == <<One(1, "trackingId", "string")>>
Address ==
  <<One(1, "streetAddress", "string"), One(2, "city", "string"),
    One(3, "state", "string"), One(4, "country", "string"),
    One(5, "zipCode", "string")>>
Money ==
  <<One(1, "currencyCode", "string"), One(2, "units", "int64"),
    One(3, "nanos", "int32")>>
GetSupportedCurrenciesResponse == <<Many(1, "currencyCodes", "string")>>
CurrencyConversionRequest ==
  <<One(1, "from", "Money"), One(2, "toCode", "string")>>
CreditCardInfo ==
  <<One(1, "creditCardNumber", "string"), One(2, "creditCardCvv", "int32"),
    One(3, "creditCardExpirationYear", "int32"),
    One(4, "creditCardExpirationMonth", "int32")>>
ChargeRequest ==
  <<One(1, "amount", "Money"), One(2, "creditCard", "CreditCardInfo")>>
ChargeResponse == <<One(1, "transactionId", "string")>>
OrderItem == <<One(1, "item", "CartItem"), One(2, "cost", "Money")>>
OrderResult ==
  <<One(1, "orderId", "string"), One(2, "shippingTrackingId", "string"),
    One(3, "shippingCost", "Money"), One(4, "shippingAddress", "Address"),
    Many(5, "items", "OrderItem")>>
SendOrderConfirmationRequest ==
  <<One(1, "email", "string"), One(2, "order", "OrderResult")>>
PlaceOrderRequest ==
  <<One(1, "userId", "string"), One(2, "userCurrency", "string"),
    One(3, "address", "Address"), One(5, "email", "string"),
    One(6, "creditCard", "CreditCardInfo")>>
PlaceOrderResponse == <<One(1, "order", "OrderResult")>>
AdRequest == <<Many(1, "contextKeys", "string")>>
AdResponse == <<Many(1, "ads", "Ad")>>
Ad == <<One(1, "redirectUrl", "string"), One(2, "text", "string")>>
Flag ==
  <<One(1, "name", "string"), One(2, "description", "string"),
    One(3, "enabled", "bool")>>
GetFlagRequest == <<One(1, "name", "string")>>
GetFlagResponse == <<One(1, "flag", "Flag")>>
CreateFlagRequest ==
  <<One(1, "name", "string"), One(2, "description", "string"),
    One(3, "enabled", "bool")>>
CreateFlagResponse == <<One(1, "flag", "Flag")>>
UpdateFlagRequest == <<One(1, "name", "string"), One(2, "enabled", "bool")>>
UpdateFlagResponse == <<>>
ListFlagsRequest == <<>>
ListFlagsResponse == <<Many(1, "flag", "Flag")>>
DeleteFlagRequest == <<One(1, "name", "string")>>
DeleteFlagResponse == <<>>

ShopMessages ==
  [ CartItem |-> CartItem, AddItemRequest |-> AddItemRequest,
    EmptyCartRequest |-> EmptyCartRequest, GetCartRequest |-> GetCartRequest,
    Cart |-> Cart, Empty |-> Empty,
    ListRecommendationsRequest |-> ListRecommendationsRequest,
    ListRecommendationsResponse |-> ListRecommendationsResponse,
    Product |-> Product, ListProductsResponse |-> ListProductsResponse,
    GetProductRequest |-> GetProductRequest,
    SearchProductsRequest |-> SearchProductsRequest,
    SearchProductsResponse |-> SearchProductsResponse,
    ProductReview |-> ProductReview,
    GetProductReviewsRequest |-> GetProductReviewsRequest,
    GetProductReviewsResponse |-> GetProductReviewsResponse,
    GetAverageProductReviewScoreRequest |-> GetAverageProductReviewScoreRequest,
    GetAverageProductReviewScoreResponse |-> GetAverageProductReviewScoreResponse,
    AskProductAIAssistantRequest |-> AskProductAIAssistantRequest,
    AskProductAIAssistantResponse |-> AskProductAIAssistantResponse ]
OrderMessages ==
  [ GetQuoteRequest |-> GetQuoteRequest, GetQuoteResponse |-> GetQuoteResponse,
    ShipOrderRequest |-> ShipOrderRequest, ShipOrderResponse |-> ShipOrderResponse,
    Address |-> Address, Money |-> Money,
    GetSupportedCurrenciesResponse |-> GetSupportedCurrenciesResponse,
    CurrencyConversionRequest |-> CurrencyConversionRequest,
    CreditCardInfo |-> CreditCardInfo, ChargeRequest |-> ChargeRequest,
    ChargeResponse |-> ChargeResponse, OrderItem |-> OrderItem,
    OrderResult |-> OrderResult,
    SendOrderConfirmationRequest |-> SendOrderConfirmationRequest,
    PlaceOrderRequest |-> PlaceOrderRequest,
    PlaceOrderResponse |-> PlaceOrderResponse ]
OtherMessages ==
  [ AdRequest |-> AdRequest, AdResponse |-> AdResponse, Ad |-> Ad, Flag |-> Flag,
    GetFlagRequest |-> GetFlagRequest, GetFlagResponse |-> GetFlagResponse,
    CreateFlagRequest |-> CreateFlagRequest,
    CreateFlagResponse |-> CreateFlagResponse,
    UpdateFlagRequest |-> UpdateFlagRequest,
    UpdateFlagResponse |-> UpdateFlagResponse,
    ListFlagsRequest |-> ListFlagsRequest,
    ListFlagsResponse |-> ListFlagsResponse,
    DeleteFlagRequest |-> DeleteFlagRequest,
    DeleteFlagResponse |-> DeleteFlagResponse ]

DemoSchema ==
  [m \in DOMAIN ShopMessages \cup DOMAIN OrderMessages \cup DOMAIN OtherMessages |->
     IF m \in DOMAIN ShopMessages THEN ShopMessages[m]
     ELSE IF m \in DOMAIN OrderMessages THEN OrderMessages[m] ELSE OtherMessages[m]]

-----------------------------------------------------------------------------
Rpc(name, request, response) ==
  [name |-> name, request |-> request, response |-> response]

CartService ==
  <<Rpc("addItem", "AddItemRequest", "Empty"),
    Rpc("getCart", "GetCartRequest", "Cart"),
    Rpc("emptyCart", "EmptyCartRequest", "Empty")>>
RecommendationService ==
  <<Rpc("listRecommendations",
        "ListRecommendationsRequest", "ListRecommendationsResponse")>>
ProductCatalogService ==
  <<Rpc("listProducts", "Empty", "ListProductsResponse"),
    Rpc("getProduct", "GetProductRequest", "Product"),
    Rpc("searchProducts", "SearchProductsRequest", "SearchProductsResponse")>>
ProductReviewService ==
  <<Rpc("getProductReviews", "GetProductReviewsRequest", "GetProductReviewsResponse"),
    Rpc("getAverageProductReviewScore",
        "GetAverageProductReviewScoreRequest", "GetAverageProductReviewScoreResponse"),
    Rpc("askProductAiAssistant",
        "AskProductAIAssistantRequest", "AskProductAIAssistantResponse")>>
ShippingService ==
  <<Rpc("getQuote", "GetQuoteRequest", "GetQuoteResponse"),
    Rpc("shipOrder", "ShipOrderRequest", "ShipOrderResponse")>>
CurrencyService ==
  <<Rpc("getSupportedCurrencies", "Empty", "GetSupportedCurrenciesResponse"),
    Rpc("convert", "CurrencyConversionRequest", "Money")>>
PaymentService == <<Rpc("charge", "ChargeRequest", "ChargeResponse")>>
EmailService == <<Rpc("sendOrderConfirmation", "SendOrderConfirmationRequest", "Empty")>>
CheckoutService == <<Rpc("placeOrder", "PlaceOrderRequest", "PlaceOrderResponse")>>
AdService == <<Rpc("getAds", "AdRequest", "AdResponse")>>
FeatureFlagService ==
  <<Rpc("getFlag", "GetFlagRequest", "GetFlagResponse"),
    Rpc("createFlag", "CreateFlagRequest", "CreateFlagResponse"),
    Rpc("updateFlag", "UpdateFlagRequest", "UpdateFlagResponse"),
    Rpc("listFlags", "ListFlagsRequest", "ListFlagsResponse"),
    Rpc("deleteFlag", "DeleteFlagRequest", "DeleteFlagResponse")>>

DemoServices ==
  { CartService, RecommendationService, ProductCatalogService,
    ProductReviewService, ShippingService, CurrencyService, PaymentService,
    EmailService, CheckoutService, AdService, FeatureFlagService }
DemoMethods == UNION { {service[i] : i \in DOMAIN service} : service \in DemoServices }

-----------------------------------------------------------------------------
(* What the frontend calls.  Shipping it asks over HTTP, and the payment,  *)
(* e-mail and feature flag services not at all.                            *)

AdGateway == {"getAds"}
CartGateway == {"getCart", "addItem", "emptyCart"}
CheckoutGateway == {"placeOrder"}
CurrencyGateway == {"convert", "getSupportedCurrencies"}
ProductCatalogGateway == {"listProducts", "getProduct"}
ProductReviewGateway ==
  {"getProductReviews", "getAverageProductReviewScore", "askProductAiAssistant"}
RecommendationsGateway == {"listRecommendations"}

FrontendMethods ==
  {m \in DemoMethods :
     m.name \in AdGateway \cup CartGateway \cup CheckoutGateway \cup CurrencyGateway
               \cup ProductCatalogGateway \cup ProductReviewGateway
               \cup RecommendationsGateway}
=============================================================================
