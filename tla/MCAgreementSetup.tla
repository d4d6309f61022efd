--------------------------- MODULE MCAgreementSetup ---------------------------
EXTENDS AgreementSetup
=============================================================================
