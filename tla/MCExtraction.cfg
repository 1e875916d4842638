SPECIFICATION Spec
CONSTANTS
    None = None
    MinRowTolerance = 4
    Aliases <- MCAliases
    Chars <- MCChars
    HasDigit <- MCHasDigit
    CurrencyMark <- MCCurrencyMark
    Plain <- MCPlain
    StrongFooter <- MCStrongFooter
    WeakFooter <- MCWeakFooter
    IgnoredStart <- MCIgnoredStart
    ProseEnding <- MCProseEnding
    TotalLabel = "total"
    Money <- MCMoney
    MaxWrapGap = 30
    MinHeaderGap = 20
    NumberLabel <- MCNumberLabel
    DateLabel <- MCDateLabel
    ExcludedDate <- MCExcludedDate
    CurrencyLabel <- MCCurrencyLabel
    CurrencyContext <- MCCurrencyContext
    IsoCode = {"USD", "EUR"}
    CurrencyName = {}
    CurrencySymbol = {"eur-sign"}
    Code <- MCCode
    ValidIdentifier <- MCValidIdentifier
    Ident <- MCIdent
    DateOf <- MCDateOf
    NumberTail <- MCNumberTail
    Bar = {"|", ";"}
    Role = {"net", "tax", "gross", "payable", "subtotal"}
    GrossRole = {"gross", "payable"}
    Between = {"amount", "total", ":"}
    Payable = "payable"
    GrossMention <- MCGrossMention
    GrossLabel <- MCGrossLabel
    Reference = "reference"
    ReferenceWord = {"id", "number", "no"}
    Identifier <- MCDigits
    Financial = {"net", "tax", "gross", "payable", "subtotal"}
    Splits = {"1,"}
    PageHeight = 1
    PageWidth = 1
    PoAliases <- MCPoAliases
    ReceiptAliases <- MCReceiptAliases
    PoFooter <- MCPoFooter
    ReceiptFooter <- MCReceiptFooter
    PoLabel <- MCPoLabel
    ReceiptLabel <- MCReceiptLabel
    OtherLabel <- MCOtherLabel
    OtherHeader <- MCOtherHeader
    IdentToken <- MCIdentToken
    JoinIdent <- MCJoinIdent
    PoDateLabel <- MCPoDateLabel
    ReceiptDateLabel <- MCReceiptDateLabel
    VendorLabel <- MCVendorLabel
    BuyerLabel <- MCBuyerLabel
    SupplierLabel <- MCVendorLabel
    LegacyPoLabel <- MCLegacyPoLabel
    LegacyReceiptLabel <- MCReceiptLabel
    MaxRowGap = 45
    MaxWordGap = 80
    MaxLabelGap = 450
    Indent = 25
    Parts <- MCParts
    NormalValue <- MCNormalValue
    Similarity <- MCSimilarity
    DigitRuns <- MCDigitRuns
    DigitFields = {"subtotal", "tax", "total", "quantity", "unit_price", "line_total", "invoice_date"}
    FuzzyThreshold = 92
    ArithmeticTolerance = 0
    OcrHeavyNum = 1
    OcrHeavyDen = 2
    MaxEnvelope = 60
    AmountTolerance = 0
    IdentKey <- MCIdent
    NumberToken <- MCPlain
    AmountLabel <- MCAmountLabel
    ColumnAlias <- MCColumnAlias
    Layouts <- MCLayouts
    TableDocs <- MCTableDocs
    HeaderDocs <- MCHeaderDocs
    OrderDocs <- MCOrderDocs
    ReceiptDocs <- MCReceiptDocs
    Quotes <- MCQuotes
    InvoiceAnswers <- MCInvoiceAnswers
    SupportingAnswers <- MCSupportingAnswers
    PrintedAmounts <- MCPrintedAmounts
INVARIANTS PageReadAsPrinted LineItemsSound TotalsProven GroundedWhereQuoted FusionSound
CHECK_DEADLOCK FALSE
